---- MODULE Spec2Model ----
(***************************************************************************)
(* Webhook delivery pipeline of the consent-management server:            *)
(* server/app/services/webhook.py, server/app/routers/webhooks.py,        *)
(* server/app/routers/consents.py, server/app/models/webhook.py.          *)
(*                                                                         *)
(* The relational store is the shared state (webhooks, deliveries,        *)
(* consents).  Request handlers run in a thread pool, so a handler that   *)
(* is blocked in the outbound HTTP POST is an element of `inflight` and   *)
(* other handlers may run meanwhile.  A handler is split at the POST      *)
(* only: everything between two POSTs of one handler is one step.         *)
(***************************************************************************)
EXTENDS Integers, Sequences, FiniteSets, TLC

\* ---------------------------------------------------------------- bounds
MaxWebhooks == 2      \* webhook rows ever inserted
MaxDeliveries == 2    \* delivery rows ever inserted
MaxInflight == 2      \* handlers blocked in a POST at the same time
MaxConsents == 1      \* consent rows ever inserted
MaxTime == 300        \* last value of the clock, in seconds

\* ------------------------------------------------------ program constants
WEBHOOK_MAX_RETRIES == 3
WEBHOOK_RETRY_DELAYS == <<60, 300, 900>>
RetryDelaySeconds == 5 * 60       \* timedelta(minutes=5)
ClockStep == RetryDelaySeconds    \* one step of the clock, in seconds

None == -1

Fiduciaries == {1, 2}
Users == {1}
Purposes == {1}
\* Purpose.fiduciary_id: purpose p belongs to fiduciary p
PurposeFiduciary(p) == p

\* ------------------------------------------------------------ strings
\* A string is the sequence of its characters.
Digits == <<"0", "1", "2", "3", "4", "5", "6", "7", "8", "9">>
Lowercase == <<"a", "b", "c", "d", "e", "f", "g", "h", "i", "j", "k", "l", "m",
               "n", "o", "p", "q", "r", "s", "t", "u", "v", "w", "x", "y", "z">>
Uppercase == <<"A", "B", "C", "D", "E", "F", "G", "H", "I", "J", "K", "L", "M",
               "N", "O", "P", "Q", "R", "S", "T", "U", "V", "W", "X", "Y", "Z">>

IndexIn(alphabet, c) ==
    IF \E i \in DOMAIN alphabet : alphabet[i] = c
    THEN CHOOSE i \in DOMAIN alphabet : alphabet[i] = c
    ELSE 0
IsDigit(c) == IndexIn(Digits, c) # 0
IsLetter(c) == IndexIn(Lowercase, c) # 0 \/ IndexIn(Uppercase, c) # 0
\* str.lower
Lower(s) ==
    [i \in DOMAIN s |->
        IF IndexIn(Uppercase, s[i]) # 0 THEN Lowercase[IndexIn(Uppercase, s[i])] ELSE s[i]]
\* str.isalnum: false for the empty string
IsAlnum(s) == s # <<>> /\ \A i \in DOMAIN s : IsDigit(s[i]) \/ IsLetter(s[i])
\* c in s
Contains(s, c) == \E i \in DOMAIN s : s[i] = c
\* s.replace(c, '')
Remove(s, c) == SelectSeq(s, LAMBDA x : x # c)
\* index of the first character of s that is in cs, 0 when there is none
Find(s, cs) ==
    IF \E i \in DOMAIN s : s[i] \in cs
    THEN CHOOSE i \in DOMAIN s : s[i] \in cs /\ \A j \in 1..(i - 1) : s[j] \notin cs
    ELSE 0
\* index of the last c in s, 0 when there is none
FindLast(s, c) ==
    IF Contains(s, c)
    THEN CHOOSE i \in DOMAIN s : s[i] = c /\ \A j \in (i + 1)..Len(s) : s[j] # c
    ELSE 0
From(s, i) == SubSeq(s, i, Len(s))
Upto(s, i) == SubSeq(s, 1, i)
StartsWith(s, p) == Len(s) >= Len(p) /\ Upto(s, Len(p)) = p
EndsWith(s, p) == Len(s) >= Len(p) /\ From(s, Len(s) - Len(p) + 1) = p
\* s.split(c)
RECURSIVE Split(_, _)
Split(s, c) ==
    LET i == Find(s, {c})
    IN  IF i = 0 THEN <<s>> ELSE <<Upto(s, i - 1)>> \o Split(From(s, i + 1), c)
\* int(s) of a string of decimal digits
RECURSIVE ToInt(_)
ToInt(s) ==
    IF s = <<>> THEN 0
    ELSE 10 * ToInt(Upto(s, Len(s) - 1)) + (IndexIn(Digits, s[Len(s)]) - 1)

\* ------------------------------------------------------------ URL safety
\* The text between the brackets of a host has the characters of an IPv6
\* address: hexadecimal digits, colons and dots, with at least one colon
\* (urlsplit refuses any other bracketed host with a ValueError).
IsIPv6Text(s) ==
    /\ Contains(s, ":")
    /\ \A i \in DOMAIN s :
          \/ IsDigit(s[i])
          \/ s[i] \in {":", ".", "a", "b", "c", "d", "e", "f", "A", "B", "C", "D", "E", "F"}

\* urlsplit, the scheme: the text after "scheme:" when the text before the
\* first colon is a scheme, else the whole text
AfterScheme(url, colon) ==
    IF /\ colon > 1
       /\ IsLetter(url[1])
       /\ \A i \in 1..(colon - 1) :
             IsLetter(url[i]) \/ IsDigit(url[i]) \/ url[i] \in {"+", "-", "."}
    THEN From(url, colon + 1)
    ELSE url

\* _splitnetloc: the authority, up to the first of / ? #
SplitNetloc(afterSlashes, stop) ==
    IF stop = 0 THEN afterSlashes ELSE Upto(afterSlashes, stop - 1)

\* urlsplit, the authority: what follows "//", empty without "//"
Netloc(rest) ==
    IF StartsWith(rest, <<"/", "/">>)
    THEN SplitNetloc(From(rest, 3), Find(From(rest, 3), {"/", "?", "#"}))
    ELSE <<>>

\* _hostinfo of a bracketed host: the text between the brackets
BracketedHost(bracketed, close) ==
    IF close = 0 THEN bracketed ELSE Upto(bracketed, close - 1)

\* _hostinfo of a host without brackets: the text before the port
PlainHost(hostinfo, port) ==
    IF port = 0 THEN hostinfo ELSE Upto(hostinfo, port - 1)

\* _hostinfo: the host of the authority without its user part
HostInfo(hostinfo, open) ==
    IF open # 0
    THEN BracketedHost(From(hostinfo, open + 1), Find(From(hostinfo, open + 1), {"]"}))
    ELSE PlainHost(hostinfo, Find(hostinfo, {":"}))

\* _userinfo: the authority after its last @
AfterUser(netloc) == From(netloc, FindLast(netloc, "@") + 1)

\* urlsplit's ValueError for brackets that do not match or do not hold an
\* IPv6 address, else the hostname property: the host in lower case
Hostname(netloc, host) ==
    IF Contains(netloc, "[") # Contains(netloc, "]")
    THEN [raises |-> TRUE, hostname |-> <<>>]
    ELSE IF Contains(netloc, "[") /\ ~IsIPv6Text(host)
    THEN [raises |-> TRUE, hostname |-> <<>>]
    ELSE [raises |-> FALSE, hostname |-> Lower(host)]

\* the hostname of an authority
ParseNetloc(netloc) ==
    Hostname(netloc, HostInfo(AfterUser(netloc), Find(AfterUser(netloc), {"["})))

\* urllib.parse.urlparse(url).hostname: [raises |-> TRUE] for the ValueError,
\* else the host in lower case, <<>> when the URL has none (Python's None)
UrlHostname(url) == ParseNetloc(Netloc(AfterScheme(url, Find(url, {":"}))))

\* ipaddress.ip_address(hostname) for a host without a colon: the four
\* octets of an IPv4 address, <<>> for the ValueError.  An octet has one to
\* three decimal digits, no leading zero, and is at most 255.
IPv4Octet(p) ==
    /\ p # <<>> /\ Len(p) <= 3
    /\ \A i \in DOMAIN p : IsDigit(p[i])
    /\ (Len(p) > 1 => p[1] # "0")
    /\ ToInt(p) <= 255
\* the address of four octets
IPv4FromParts(parts) ==
    IF Len(parts) = 4 /\ \A i \in 1..4 : IPv4Octet(parts[i])
    THEN [i \in 1..4 |-> ToInt(parts[i])]
    ELSE <<>>
IPv4Octets(hostname) == IPv4FromParts(Split(hostname, "."))

\* ip.is_private or ip.is_loopback or ip.is_link_local or ip.is_reserved of
\* an IPv4 address (the networks of the ipaddress module)
IPv4Blocked(ip) ==
    \/ ip[1] = 0                                        \* 0.0.0.0/8
    \/ ip[1] = 10                                       \* 10.0.0.0/8
    \/ ip[1] = 127                                      \* 127.0.0.0/8 (loopback)
    \/ ip[1] = 169 /\ ip[2] = 254                       \* 169.254.0.0/16 (link-local)
    \/ ip[1] = 172 /\ ip[2] \in 16..31                  \* 172.16.0.0/12
    \/ ip[1] = 192 /\ ip[2] = 0 /\ ip[3] = 0 /\ ip[4] \in 0..7       \* 192.0.0.0/29
    \/ ip[1] = 192 /\ ip[2] = 0 /\ ip[3] = 0 /\ ip[4] \in 170..171   \* 192.0.0.170/31
    \/ ip[1] = 192 /\ ip[2] = 0 /\ ip[3] = 2            \* 192.0.2.0/24
    \/ ip[1] = 192 /\ ip[2] = 168                       \* 192.168.0.0/16
    \/ ip[1] = 198 /\ ip[2] \in 18..19                  \* 198.18.0.0/15
    \/ ip[1] = 198 /\ ip[2] = 51 /\ ip[3] = 100         \* 198.51.100.0/24
    \/ ip[1] = 203 /\ ip[2] = 0 /\ ip[3] = 113          \* 203.0.113.0/24
    \/ ip[1] >= 240                                     \* 240.0.0.0/4 (reserved)

\* the literal hosts of the first check
LocalhostNames ==
    {<<"l", "o", "c", "a", "l", "h", "o", "s", "t">>,
     <<"1", "2", "7", ".", "0", ".", "0", ".", "1">>,
     <<":", ":", "1">>,
     <<"0", ".", "0", ".", "0", ".", "0">>}

\* the pattern ^172\.(1[6-9]|2[0-9]|3[0-1])\. on the host split at its dots
Pattern172(parts) ==
    /\ Len(parts) >= 3
    /\ parts[1] = <<"1", "7", "2">>
    /\ Len(parts[2]) = 2
    /\ \A i \in 1..2 : IsDigit(parts[2][i])
    /\ ToInt(parts[2]) \in 16..31
\* blocked_patterns, matched with re.IGNORECASE against the lower-case host
BlockedPattern(hostname) ==
    \/ EndsWith(hostname, <<".", "l", "o", "c", "a", "l">>)
    \/ EndsWith(hostname, <<".", "i", "n", "t", "e", "r", "n", "a", "l">>)
    \/ EndsWith(hostname, <<".", "l", "o", "c", "a", "l", "h", "o", "s", "t">>)
    \/ StartsWith(hostname, <<"1", "9", "2", ".", "1", "6", "8", ".">>)
    \/ StartsWith(hostname, <<"1", "0", ".">>)
    \/ Pattern172(Split(hostname, "."))
    \/ StartsWith(hostname, <<"1", "6", "9", ".", "2", "5", "4", ".">>)

\* the address check: the verdict for the octets of an IPv4 address, the
\* patterns for a host that is none
AddressOrPattern(hostname, ip) ==
    IF ip # <<>> THEN IPv4Blocked(ip) ELSE BlockedPattern(hostname)

\* HostRefused with every IP address let through
HostRefusedNoAddressCheck(hostname) ==
    IF hostname = <<>> THEN TRUE
    ELSE IF hostname \in LocalhostNames THEN TRUE
    ELSE IF ~Contains(hostname, ".") /\ ~IsAlnum(Remove(hostname, "-")) THEN TRUE
    ELSE IF IPv4Octets(hostname) # <<>> THEN FALSE
    ELSE BlockedPattern(hostname)

\* is_private_or_internal_url from the hostname on
HostRefused(hostname) ==
    IF hostname = <<>> THEN TRUE
    ELSE IF hostname \in LocalhostNames THEN TRUE
    ELSE IF ~Contains(hostname, ".") /\ ~IsAlnum(Remove(hostname, "-")) THEN TRUE
    ELSE AddressOrPattern(hostname, IPv4Octets(hostname))

\* the try block of is_private_or_internal_url: an exception refuses
ParsedRefused(parsed) == IF parsed.raises THEN TRUE ELSE HostRefused(parsed.hostname)

\* is_private_or_internal_url: TRUE when the URL is refused
IsPrivateOrInternalUrl(url) == ParsedRefused(UrlHostname(url))

\* WebhookEvent
CONSENT_GRANTED == "consent.granted"
CONSENT_REVOKED == "consent.revoked"
CONSENT_EXPIRED == "consent.expired"
ALL == "all"
WebhookEvent == {CONSENT_GRANTED, CONSENT_REVOKED, CONSENT_EXPIRED, ALL}

\* WebhookStatus
PENDING == "pending"
SUCCESS == "success"
FAILED == "failed"
RETRYING == "retrying"
WebhookStatus == {PENDING, SUCCESS, FAILED, RETRYING}

\* the event lists a create or update request carries in this model
EventLists == {{CONSENT_GRANTED}, {ALL}}

\* A webhook name is modelled by its length, the only property of a name
\* that the code reads.
Names == {0, 2, 3, 255, 256}

\* https://example.com/hook
ExampleUrl ==
    <<"h", "t", "t", "p", "s", ":", "/", "/", "e", "x", "a", "m", "p", "l", "e",
      ".", "c", "o", "m", "/", "h", "o", "o", "k">>

\* https://api.example.org/in
OtherUrl ==
    <<"h", "t", "t", "p", "s", ":", "/", "/", "a", "p", "i", ".", "e", "x", "a",
      "m", "p", "l", "e", ".", "o", "r", "g", "/", "i", "n">>

\* http://10.0.0.5/hook
PrivateUrl ==
    <<"h", "t", "t", "p", ":", "/", "/", "1", "0", ".", "0", ".", "0", ".", "5",
      "/", "h", "o", "o", "k">>

\* https://localhost/hook
LocalhostUrl ==
    <<"h", "t", "t", "p", "s", ":", "/", "/", "l", "o", "c", "a", "l", "h", "o",
      "s", "t", "/", "h", "o", "o", "k">>

\* the create requests of the delivery specifications: one name, one URL
PlainCreates == [name : {3}, url : {ExampleUrl}, events : EventLists]

\* the update requests of this model: given names the fields the request
\* supplies, the other fields are None in the request and are not read
UpdateRequests ==
    [given : {{"events"}}, events : EventLists, is_active : {FALSE}]
    \cup [given : {{"is_active"}}, events : {{}}, is_active : BOOLEAN]

\* what the outbound POST can do: answer with a status code, or raise
StatusCodes == {199, 200, 299, 300}
Outcomes == [kind : {"response"}, code : StatusCodes]
            \cup [kind : {"timeout", "request_error", "exception"}, code : {None}]

VARIABLES
    webhooks,     \* table webhooks: id -> row
    deliveries,   \* table webhook_deliveries: id -> row
    consents,     \* table consents: sequence of rows, id = index
    webhookSeq,   \* last id handed out by the webhooks id sequence
    deliverySeq,  \* last id handed out by the webhook_deliveries id sequence
    inflight,     \* handlers blocked in client.post
    last,         \* status of the last handler that ended after starting deliveries
    now,          \* the clock (datetime.utcnow), in seconds
    secretSeq,    \* number of secrets generate_webhook_secret has handed out
    creating,     \* create handlers between their count query and their insert
    accounts,     \* table data_fiduciaries: the accounts that exist
    resp          \* the answer to the last management request (observed, not stored)

vars == <<webhooks, deliveries, consents, webhookSeq, deliverySeq, inflight, last, now,
          secretSeq, creating, accounts, resp>>

\* what only the management specifications below read and write
aside == <<creating, accounts, resp>>

\* how a handler that ran its deliveries ended: it returned its response, or
\* an exception that it does not catch left it (the client gets a 500)
Returned == "returned"
Raised == "raised"

\* no management request has been answered yet
NoAnswer == [op |-> "none", fid |-> 0, w |-> 0, status |-> 0]

Init ==
    /\ webhooks = <<>>
    /\ deliveries = <<>>
    /\ consents = <<>>
    /\ webhookSeq = 0
    /\ deliverySeq = 0
    /\ inflight = {}
    /\ last = "none"
    /\ now = 0
    /\ secretSeq = 0
    /\ creating = <<>>
    /\ accounts = Fiduciaries
    /\ resp = NoAnswer

\* f with key k removed
Without(f, k) == [x \in DOMAIN f \ {k} |-> f[x]]
\* f with key k bound to v
With(f, k, v) == [x \in DOMAIN f \cup {k} |-> IF x = k THEN v ELSE f[x]]

\* ascending sequence of the elements of a finite set of integers
RECURSIVE SortedSeq(_)
SortedSeq(S) ==
    IF S = {} THEN <<>>
    ELSE LET m == CHOOSE x \in S : \A y \in S : x <= y
         IN <<m>> \o SortedSeq(S \ {m})

\* ------------------------------------------------------------ registry
NoMessage == "none"

\* the URL has a host
HasHost(parsed) == ~parsed.raises /\ parsed.hostname # <<>>
\* the HttpUrl type of the request schemas: an http or https URL with a host
IsHttpUrl(url) ==
    /\ \/ StartsWith(Lower(url), <<"h", "t", "t", "p", ":", "/", "/">>)
       \/ StartsWith(Lower(url), <<"h", "t", "t", "p", "s", ":", "/", "/">>)
    /\ HasHost(UrlHostname(url))

\* the URLs that the create and update requests carry
RequestUrls == {ExampleUrl, OtherUrl, PrivateUrl, LocalhostUrl}

\* url: HttpUrl with the validator validate_url_not_internal, on each of the
\* URLs of the requests
UrlAccepted ==
    [url \in RequestUrls |-> IsHttpUrl(url) /\ ~IsPrivateOrInternalUrl(url)]

\* WebhookCreate.validate_name
ValidName(name) == ~(name < 3) /\ ~(name > 255)

\* WebhookCreate.validate_events, WebhookUpdate.validate_events: every
\* event of the list is a WebhookEvent value
ValidEvents(events) == \A e \in events : e \in WebhookEvent

\* WebhookCreate: the request body passes the schema (else 422)
ValidCreate(data) ==
    /\ UrlAccepted[data.url]
    /\ ValidEvents(data.events)
    /\ ValidName(data.name)

\* ValidUpdate without the validator of the URL
ValidUpdateAnyUrl(data) ==
    "events" \in data.given => ValidEvents(data.events)

\* WebhookUpdate: the fields the request supplies pass the schema (else 422)
ValidUpdate(data) ==
    /\ "url" \in data.given => UrlAccepted[data.url]
    /\ "events" \in data.given => ValidEvents(data.events)

\* create_webhook: the row a create inserts; secret is the fresh token of
\* generate_webhook_secret
NewWebhook(fid, name, url, events, secret) ==
    [fiduciary_id |-> fid, name |-> name, url |-> url, secret |-> secret,
     events |-> events, is_active |-> TRUE]

\* WebhookFound without the filter on the owner
WebhookFoundAnyOwner(w, fid) == w \in DOMAIN webhooks

\* get_webhook_by_uuid: the row, looked up by id and scoped by owner
WebhookFound(w, fid) ==
    w \in DOMAIN webhooks /\ webhooks[w].fiduciary_id = fid

\* get_fiduciary_webhooks
FiduciaryWebhooks(fid) ==
    {w \in DOMAIN webhooks : webhooks[w].fiduciary_id = fid}

\* POST /api/webhooks, accepted: the body is valid and the owner is under
\* the limit (422 and 400 otherwise, without change)
CreateWebhook(fid, data) ==
    /\ ValidCreate(data)
    /\ ~(Cardinality(FiduciaryWebhooks(fid)) >= 10)
    /\ webhookSeq' = webhookSeq + 1
    /\ secretSeq' = secretSeq + 1
    /\ webhooks' = With(webhooks, webhookSeq + 1,
                        NewWebhook(fid, data.name, data.url, data.events, secretSeq + 1))
    /\ UNCHANGED <<deliveries, consents, deliverySeq, inflight, last, now>>

\* name = Column(String(255)): PostgreSQL refuses a longer value, the commit
\* of update_webhook raises and the transaction is rolled back
FitsColumns(data) == "name" \in data.given => data.name <= 255

\* update_webhook: a field the request does not supply (is None) is left alone
UpdatedWebhook(row, data) ==
    [row EXCEPT !.name = IF "name" \in data.given THEN data.name ELSE @,
                !.url = IF "url" \in data.given THEN data.url ELSE @,
                !.events = IF "events" \in data.given THEN data.events ELSE @,
                !.is_active = IF "is_active" \in data.given THEN data.is_active ELSE @]

\* PUT /api/webhooks/{uuid} (404 and no change when the lookup finds nothing)
UpdateWebhook(w, fid, data) ==
    /\ ValidUpdate(data)
    /\ WebhookFound(w, fid)
    /\ FitsColumns(data)
    /\ webhooks' = [webhooks EXCEPT ![w] = UpdatedWebhook(@, data)]
    /\ UNCHANGED <<deliveries, consents, webhookSeq, deliverySeq, inflight, last, now, secretSeq>>

\* DeleteWebhook without the cascade to the deliveries
DeleteWebhookKeepsRows(w, fid) ==
    /\ WebhookFound(w, fid)
    /\ webhooks' = Without(webhooks, w)
    /\ UNCHANGED <<deliveries, consents, webhookSeq, deliverySeq, inflight, last, now, secretSeq>>

\* DeleteWebhook with the deliveries deleted without the filter on the webhook
DeleteWebhookAllRows(w, fid) ==
    /\ WebhookFound(w, fid)
    /\ webhooks' = Without(webhooks, w)
    /\ deliveries' = <<>>
    /\ UNCHANGED <<consents, webhookSeq, deliverySeq, inflight, last, now, secretSeq>>

\* DELETE /api/webhooks/{uuid}: the relationship cascades to the deliveries
DeleteWebhook(w, fid) ==
    /\ WebhookFound(w, fid)
    /\ webhooks' = Without(webhooks, w)
    /\ deliveries' = [d \in {x \in DOMAIN deliveries : deliveries[x].webhook_id # w}
                        |-> deliveries[d]]
    /\ UNCHANGED <<consents, webhookSeq, deliverySeq, inflight, last, now, secretSeq>>

\* ------------------------------------------------------ delivery engine
\* ShouldTrigger without the wildcard
ShouldTriggerNoWildcard(webhook, event_type) ==
    /\ webhook.is_active
    /\ event_type \in webhook.events

\* should_trigger_webhook
ShouldTrigger(webhook, event_type) ==
    /\ webhook.is_active
    /\ (ALL \in webhook.events \/ event_type \in webhook.events)

\* generate_signature with a key that does not depend on the webhook
generate_signature_fixed_key(payload, secret) == [payload |-> payload, key |-> 0]

\* generate_signature: the HMAC-SHA256 of the payload under the secret, kept
\* as the pair it is computed from (no two pairs give the same digest)
generate_signature(payload, secret) == [payload |-> payload, key |-> secret]

\* payload_dict of deliver_webhook: the items of the envelope, in the order
\* the dict literal gives them (timestamp.isoformat() is the text of the clock)
PayloadDict(event_type, t) ==
    <<<<"event", event_type>>, <<"timestamp", ToString(t)>>, <<"data", "{}">>>>

\* the items of a dict as JSON text, in the order of the dict
RECURSIVE JsonItems(_)
JsonItems(items) ==
    IF items = <<>> THEN <<>>
    ELSE <<Head(items)[1], ":", Head(items)[2]>>
         \o (IF Len(items) > 1 THEN <<",">> ELSE <<>>)
         \o JsonItems(Tail(items))

\* json.dumps(payload_dict, default=str)
JsonDumps(items) == <<"{">> \o JsonItems(items) \o <<"}">>

\* payload of deliver_webhook: the envelope, serialized
Payload(event_type, t) == JsonDumps(PayloadDict(event_type, t))

\* PostRequest with the signature over a serialization of its own, keys sorted
PostRequestSignsSortedKeys(webhook, event_type, payload) ==
    [url |-> webhook.url,
     content |-> payload,
     signature |-> generate_signature(
                       JsonDumps(<<<<"data", "{}">>, <<"event", event_type>>,
                                   <<"timestamp", payload[8]>>>>),
                       webhook.secret),
     event |-> event_type]

\* client.post of deliver_webhook: the URL, the body and the headers
\* X-Eigensparse-Signature and X-Eigensparse-Event
PostRequest(webhook, event_type, payload) ==
    [url |-> webhook.url,
     content |-> payload,
     signature |-> generate_signature(payload, webhook.secret),
     event |-> event_type]

\* NewDelivery with the column default of attempt_count instead of 1
NewDeliveryDefaultCount(w, event_type, payload) ==
    [webhook_id |-> w, event_type |-> event_type, payload |-> payload, status |-> PENDING,
     response_code |-> None, error_message |-> NoMessage, attempt_count |-> 0,
     next_retry_at |-> None, delivered_at |-> None]

\* deliver_webhook, first half: the row committed before the POST
NewDelivery(w, event_type, payload) ==
    [webhook_id |-> w, event_type |-> event_type, payload |-> payload, status |-> PENDING,
     response_code |-> None, error_message |-> NoMessage, attempt_count |-> 1,
     next_retry_at |-> None, delivered_at |-> None]

\* Finish with the upper end of the success range included
FinishUpTo300(row, o, t) ==
    IF o.kind = "response"
    THEN IF 200 <= o.code /\ o.code <= 300
         THEN [row EXCEPT !.response_code = o.code, !.status = SUCCESS,
                          !.delivered_at = t]
         ELSE [row EXCEPT !.response_code = o.code, !.status = FAILED,
                          !.error_message = "HTTP",
                          !.next_retry_at = t + RetryDelaySeconds]
    ELSE IF o.kind = "timeout"
    THEN [row EXCEPT !.status = FAILED, !.error_message = "Request timed out",
                     !.next_retry_at = t + RetryDelaySeconds]
    ELSE IF o.kind = "request_error"
    THEN [row EXCEPT !.status = FAILED, !.error_message = "request error",
                     !.next_retry_at = t + RetryDelaySeconds]
    ELSE [row EXCEPT !.status = FAILED, !.error_message = "Unexpected error"]

\* Finish with delivered_at set as soon as a response arrived
FinishStampsEveryResponse(row, o, t) ==
    IF o.kind = "response"
    THEN IF 200 <= o.code /\ o.code < 300
         THEN [row EXCEPT !.response_code = o.code, !.status = SUCCESS,
                          !.delivered_at = t]
         ELSE [row EXCEPT !.response_code = o.code, !.status = FAILED,
                          !.error_message = "HTTP", !.delivered_at = t,
                          !.next_retry_at = t + RetryDelaySeconds]
    ELSE IF o.kind = "timeout"
    THEN [row EXCEPT !.status = FAILED, !.error_message = "Request timed out",
                     !.next_retry_at = t + RetryDelaySeconds]
    ELSE IF o.kind = "request_error"
    THEN [row EXCEPT !.status = FAILED, !.error_message = "request error",
                     !.next_retry_at = t + RetryDelaySeconds]
    ELSE [row EXCEPT !.status = FAILED, !.error_message = "Unexpected error"]

\* Finish with the status left as it is when the POST raises something else
FinishKeepsPendingOnException(row, o, t) ==
    IF o.kind = "response"
    THEN IF 200 <= o.code /\ o.code < 300
         THEN [row EXCEPT !.response_code = o.code, !.status = SUCCESS,
                          !.delivered_at = t]
         ELSE [row EXCEPT !.response_code = o.code, !.status = FAILED,
                          !.error_message = "HTTP",
                          !.next_retry_at = t + RetryDelaySeconds]
    ELSE IF o.kind = "timeout"
    THEN [row EXCEPT !.status = FAILED, !.error_message = "Request timed out",
                     !.next_retry_at = t + RetryDelaySeconds]
    ELSE IF o.kind = "request_error"
    THEN [row EXCEPT !.status = FAILED, !.error_message = "request error",
                     !.next_retry_at = t + RetryDelaySeconds]
    ELSE [row EXCEPT !.error_message = "Unexpected error"]

\* deliver_webhook, second half: the row after the POST came back with outcome o at time t
Finish(row, o, t) ==
    IF o.kind = "response"
    THEN IF 200 <= o.code /\ o.code < 300
         THEN [row EXCEPT !.response_code = o.code, !.status = SUCCESS,
                          !.delivered_at = t]
         ELSE [row EXCEPT !.response_code = o.code, !.status = FAILED,
                          !.error_message = "HTTP",
                          !.next_retry_at = t + RetryDelaySeconds]
    ELSE IF o.kind = "timeout"
    THEN [row EXCEPT !.status = FAILED, !.error_message = "Request timed out",
                     !.next_retry_at = t + RetryDelaySeconds]
    ELSE IF o.kind = "request_error"
    THEN [row EXCEPT !.status = FAILED, !.error_message = "request error",
                     !.next_retry_at = t + RetryDelaySeconds]
    ELSE [row EXCEPT !.status = FAILED, !.error_message = "Unexpected error"]

\* The for-loop of trigger_consent_webhooks from its head, over the rows `rest`
\* loaded by the query and read again from the table wh: the next webhook to
\* deliver to, or the end of the list, or a row that is gone (the ORM raises).
RECURSIVE Scan(_, _, _)
Scan(wh, rest, event_type) ==
    IF rest = <<>> THEN [op |-> "return", w |-> 0, rest |-> <<>>]
    ELSE IF Head(rest) \notin DOMAIN wh THEN [op |-> "raise", w |-> 0, rest |-> <<>>]
    ELSE IF ShouldTrigger(wh[Head(rest)], event_type)
         THEN [op |-> "deliver", w |-> Head(rest), rest |-> Tail(rest)]
         ELSE Scan(wh, Tail(rest), event_type)

\* Loop with the id of the new row computed from the number of rows
LoopCountsRows(kind, fid, event_type, rest, created, others, dl) ==
    LET s == Scan(webhooks, rest, event_type)
        d == Cardinality(DOMAIN dl) + 1
    IN  CASE s.op = "deliver" ->
               /\ deliverySeq < MaxDeliveries
               /\ Cardinality(others) < MaxInflight
               /\ deliverySeq' = deliverySeq + 1
               /\ deliveries' = With(dl, d, NewDelivery(s.w, event_type, Payload(event_type, now)))
               /\ inflight' = others \cup
                      {[kind |-> kind, fid |-> fid, event |-> event_type,
                        rest |-> s.rest, cur |-> d, created |-> created \cup {d},
                        request |-> PostRequest(webhooks[s.w], event_type, Payload(event_type, now))]}
               /\ last' = last
          [] s.op = "return" ->
               /\ deliveries' = dl
               /\ inflight' = others
               /\ last' = Returned
               /\ UNCHANGED deliverySeq
          [] s.op = "raise" ->
               /\ deliveries' = dl
               /\ inflight' = others
               /\ last' = Raised
               /\ UNCHANGED deliverySeq

\* A handler of the given kind runs from the loop head until it blocks in the
\* next POST, returns or raises.  others: the other blocked handlers;
\* dl: the deliveries table as this handler's last commit left it.
Loop(kind, fid, event_type, rest, created, others, dl) ==
    LET s == Scan(webhooks, rest, event_type)
        d == deliverySeq + 1
    IN  CASE s.op = "deliver" ->
               /\ deliverySeq < MaxDeliveries
               /\ Cardinality(others) < MaxInflight
               /\ deliverySeq' = d
               /\ deliveries' = With(dl, d, NewDelivery(s.w, event_type, Payload(event_type, now)))
               /\ inflight' = others \cup
                      {[kind |-> kind, fid |-> fid, event |-> event_type,
                        rest |-> s.rest, cur |-> d, created |-> created \cup {d},
                        request |-> PostRequest(webhooks[s.w], event_type, Payload(event_type, now))]}
               /\ last' = last
          [] s.op = "return" ->
               /\ deliveries' = dl
               /\ inflight' = others
               /\ last' = Returned
               /\ UNCHANGED deliverySeq
          [] s.op = "raise" ->
               /\ deliveries' = dl
               /\ inflight' = others
               /\ last' = Raised
               /\ UNCHANGED deliverySeq

\* trigger_consent_webhooks: the query, then the loop
Trigger(kind, fid, event_type) ==
    Loop(kind, fid, event_type,
         SortedSeq({w \in FiduciaryWebhooks(fid) : webhooks[w].is_active}),
         {}, inflight, deliveries)

\* DeliverEnd with a failed delivery ending the loop: the handler returns
\* without the deliveries that remain
DeliverEndStopsOnFailure(r, o) ==
    /\ r \in inflight
    /\ IF r.cur \notin DOMAIN deliveries
       THEN /\ inflight' = inflight \ {r}
            /\ last' = Raised
            /\ UNCHANGED <<deliveries, deliverySeq>>
       ELSE Loop(r.kind, r.fid, r.event,
                 IF Finish(deliveries[r.cur], o, now).status = FAILED THEN <<>> ELSE r.rest,
                 r.created, inflight \ {r},
                 [deliveries EXCEPT ![r.cur] = Finish(@, o, now)])
    /\ UNCHANGED <<webhooks, consents, webhookSeq, now, secretSeq>>

\* DeliverEnd with a failed delivery raised to the handler
DeliverEndRaisesOnFailure(r, o) ==
    /\ r \in inflight
    /\ IF r.cur \notin DOMAIN deliveries
       THEN /\ inflight' = inflight \ {r}
            /\ last' = Raised
            /\ UNCHANGED <<deliveries, deliverySeq>>
       ELSE IF Finish(deliveries[r.cur], o, now).status = FAILED
       THEN /\ inflight' = inflight \ {r}
            /\ last' = Raised
            /\ deliveries' = [deliveries EXCEPT ![r.cur] = Finish(@, o, now)]
            /\ UNCHANGED deliverySeq
       ELSE Loop(r.kind, r.fid, r.event, r.rest, r.created, inflight \ {r},
                 [deliveries EXCEPT ![r.cur] = Finish(@, o, now)])
    /\ UNCHANGED <<webhooks, consents, webhookSeq, now, secretSeq>>

\* The POST of a blocked handler comes back with outcome o: deliver_webhook
\* commits the result and the handler goes on.  The commit raises when the
\* delivery row was deleted meanwhile.
DeliverEnd(r, o) ==
    /\ r \in inflight
    /\ IF r.cur \notin DOMAIN deliveries
       THEN /\ inflight' = inflight \ {r}
            /\ last' = Raised
            /\ UNCHANGED <<deliveries, deliverySeq>>
       ELSE Loop(r.kind, r.fid, r.event, r.rest, r.created, inflight \ {r},
                 [deliveries EXCEPT ![r.cur] = Finish(@, o, now)])
    /\ UNCHANGED <<webhooks, consents, webhookSeq, now, secretSeq>>

\* TestWebhook with the POST issued before the row is committed
TestWebhookPostsFirst(w, fid) ==
    /\ WebhookFound(w, fid)
    /\ deliverySeq < MaxDeliveries
    /\ Cardinality(inflight) < MaxInflight
    /\ deliverySeq' = deliverySeq + 1
    /\ inflight' = inflight \cup
           {[kind |-> "test", fid |-> fid, event |-> "test", rest |-> <<>>,
             cur |-> deliverySeq + 1, created |-> {deliverySeq + 1},
             request |-> PostRequest(webhooks[w], "test", Payload("test", now))]}
    /\ UNCHANGED <<webhooks, deliveries, consents, webhookSeq, last, now, secretSeq>>

\* POST /api/webhooks/{uuid}/test: test_webhook delivers a "test" event
\* (404 and no change when the lookup finds nothing)
TestWebhook(w, fid) ==
    /\ WebhookFound(w, fid)
    /\ deliverySeq < MaxDeliveries
    /\ Cardinality(inflight) < MaxInflight
    /\ deliverySeq' = deliverySeq + 1
    /\ deliveries' = With(deliveries, deliverySeq + 1, NewDelivery(w, "test", Payload("test", now)))
    /\ inflight' = inflight \cup
           {[kind |-> "test", fid |-> fid, event |-> "test", rest |-> <<>>,
             cur |-> deliverySeq + 1, created |-> {deliverySeq + 1},
             request |-> PostRequest(webhooks[w], "test", Payload("test", now))]}
    /\ UNCHANGED <<webhooks, consents, webhookSeq, last, now, secretSeq>>

\* ------------------------------------------------------------ consents
GRANTED == "granted"
REVOKED == "revoked"
EXPIRED == "expired"

\* Purpose.retention_period_days (PurposeCreate: from 1 to 3650)
RetentionPeriodDays(p) == 1
\* timedelta(days=1), in seconds
SecondsPerDay == 86400

\* POST /api/consents/grant (400 and no change when a GRANTED consent exists)
GrantConsent(u, p) ==
    /\ ~\E c \in DOMAIN consents :
              /\ consents[c].user_id = u
              /\ consents[c].purpose_id = p
              /\ consents[c].status = GRANTED
    /\ consents' = Append(consents,
           [user_id |-> u, fiduciary_id |-> PurposeFiduciary(p),
            purpose_id |-> p, status |-> GRANTED,
            expires_at |-> now + RetentionPeriodDays(p) * SecondsPerDay])
    /\ Trigger("grant", PurposeFiduciary(p), CONSENT_GRANTED)
    /\ UNCHANGED <<webhooks, webhookSeq, now, secretSeq>>

\* POST /api/consents/revoke (404 for an unknown consent, 400 for a revoked
\* one, both without change)
RevokeConsent(u, c) ==
    /\ c \in DOMAIN consents
    /\ consents[c].user_id = u
    /\ consents[c].status # REVOKED
    /\ consents' = [consents EXCEPT ![c].status = REVOKED]
    /\ Trigger("revoke", consents[c].fiduciary_id, CONSENT_REVOKED)
    /\ UNCHANGED <<webhooks, webhookSeq, now, secretSeq>>

\* time passes
Tick ==
    /\ now + ClockStep <= MaxTime
    /\ now' = now + ClockStep
    /\ UNCHANGED <<webhooks, deliveries, consents, webhookSeq, deliverySeq, inflight, last, secretSeq>>

Next ==
    \/ \E fid \in Fiduciaries, data \in PlainCreates :
          webhookSeq < MaxWebhooks /\ CreateWebhook(fid, data) /\ UNCHANGED aside
    \/ \E w \in 1..MaxWebhooks, fid \in Fiduciaries, data \in UpdateRequests :
          UpdateWebhook(w, fid, data) /\ UNCHANGED aside
    \/ \E w \in 1..MaxWebhooks, fid \in Fiduciaries : DeleteWebhook(w, fid) /\ UNCHANGED aside
    \/ \E w \in 1..MaxWebhooks, fid \in Fiduciaries : TestWebhook(w, fid) /\ UNCHANGED aside
    \/ \E u \in Users, p \in Purposes : Len(consents) < MaxConsents /\ GrantConsent(u, p) /\ UNCHANGED aside
    \/ \E u \in Users, c \in 1..MaxConsents : RevokeConsent(u, c) /\ UNCHANGED aside
    \/ \E r \in inflight, o \in Outcomes : DeliverEnd(r, o) /\ UNCHANGED aside

Spec == Init /\ [][Next]_vars

\* One handler at a time: no request is served while a handler is blocked in
\* a POST.  These are the runs in which a trigger sees one registry state.
Idle == inflight = {}

SeqNext ==
    \/ \E fid \in Fiduciaries, data \in PlainCreates :
          Idle /\ webhookSeq < MaxWebhooks /\ CreateWebhook(fid, data) /\ UNCHANGED aside
    \/ \E w \in 1..MaxWebhooks, fid \in Fiduciaries, data \in UpdateRequests :
          Idle /\ UpdateWebhook(w, fid, data) /\ UNCHANGED aside
    \/ \E w \in 1..MaxWebhooks, fid \in Fiduciaries : Idle /\ DeleteWebhook(w, fid) /\ UNCHANGED aside
    \/ \E w \in 1..MaxWebhooks, fid \in Fiduciaries : Idle /\ TestWebhook(w, fid) /\ UNCHANGED aside
    \/ \E u \in Users, p \in Purposes : Idle /\ Len(consents) < MaxConsents /\ GrantConsent(u, p) /\ UNCHANGED aside
    \/ \E u \in Users, c \in 1..MaxConsents : Idle /\ RevokeConsent(u, c) /\ UNCHANGED aside
    \/ \E r \in inflight, o \in Outcomes : DeliverEnd(r, o) /\ UNCHANGED aside

SeqSpec == Init /\ [][SeqNext]_vars

\* The runs in which time passes.  A POST ends within its timeout and the
\* clock advances, so both are weakly fair.
TimedNext ==
    \/ \E fid \in Fiduciaries, data \in PlainCreates :
          webhookSeq < MaxWebhooks /\ CreateWebhook(fid, data) /\ UNCHANGED aside
    \/ \E w \in 1..MaxWebhooks, fid \in Fiduciaries, data \in UpdateRequests :
          UpdateWebhook(w, fid, data) /\ UNCHANGED aside
    \/ \E u \in Users, p \in Purposes : Len(consents) < MaxConsents /\ GrantConsent(u, p) /\ UNCHANGED aside
    \/ \E u \in Users, c \in 1..MaxConsents : RevokeConsent(u, c) /\ UNCHANGED aside
    \/ \E r \in inflight, o \in Outcomes : DeliverEnd(r, o) /\ UNCHANGED aside
    \/ Tick /\ UNCHANGED aside

TimedSpec ==
    /\ Init
    /\ [][TimedNext]_vars
    /\ WF_vars(Tick /\ UNCHANGED aside)
    /\ WF_vars(\E r \in inflight, o \in Outcomes : DeliverEnd(r, o) /\ UNCHANGED aside)

\* ------------------------------------------- management requests, answered
\* The handlers of routers/webhooks.py as the caller sees them: every request
\* is answered, and resp holds the answer together with the request it
\* answers (op, the operation; fid, the authenticated fiduciary; w, the
\* webhook the request names, 0 when it names none).

\* everything but the answer
store == <<webhooks, deliveries, consents, webhookSeq, deliverySeq, inflight, last, now,
           secretSeq, creating, accounts>>

\* webhook_to_response answering with the whole row
WebhookToResponseWholeRow(w, row) ==
    [id |-> w, name |-> row.name, url |-> row.url, events |-> row.events,
     is_active |-> row.is_active, secret |-> row.secret]

\* webhook_to_response: WebhookResponse has no secret field
WebhookToResponse(w, row) ==
    [id |-> w, name |-> row.name, url |-> row.url, events |-> row.events,
     is_active |-> row.is_active]

\* WebhookWithSecret
WebhookWithSecret(w, row) ==
    [id |-> w, name |-> row.name, url |-> row.url, events |-> row.events,
     is_active |-> row.is_active, secret |-> row.secret]

\* WebhookDeliveryResponse
WebhookDeliveryResponse(d, row) ==
    [id |-> d, event_type |-> row.event_type, status |-> row.status,
     response_code |-> row.response_code, error_message |-> row.error_message,
     attempt_count |-> row.attempt_count, delivered_at |-> row.delivered_at]

\* HTTPException(status_code=404, detail="Webhook not found")
NotFound(op, fid, w) ==
    [op |-> op, fid |-> fid, w |-> w, status |-> 404, detail |-> "Webhook not found"]
\* HTTPException(status_code=400, detail="Maximum webhook limit reached (10)")
LimitReached(fid) ==
    [op |-> "create", fid |-> fid, w |-> 0, status |-> 400,
     detail |-> "Maximum webhook limit reached (10)"]
\* the request body fails its schema
Unprocessable(op, fid, w) == [op |-> op, fid |-> fid, w |-> w, status |-> 422]
Ok(op, fid, w, body) == [op |-> op, fid |-> fid, w |-> w, status |-> 200, body |-> body]
\* the handler is blocked in its POST and has not answered
Waiting(op, fid, w) == [op |-> op, fid |-> fid, w |-> w, status |-> 0]
\* an exception left the handler
ServerError(op, fid, w) == [op |-> op, fid |-> fid, w |-> w, status |-> 500]

\* create_new_webhook with the limit check letting the 11th webhook in
CreateNewWebhookOneTooMany(fid, data) ==
    IF ~ValidCreate(data)
    THEN resp' = Unprocessable("create", fid, 0) /\ UNCHANGED store
    ELSE IF Cardinality(FiduciaryWebhooks(fid)) > 10
    THEN resp' = LimitReached(fid) /\ UNCHANGED store
    ELSE /\ webhookSeq' = webhookSeq + 1
         /\ secretSeq' = secretSeq + 1
         /\ webhooks' = With(webhooks, webhookSeq + 1,
                             NewWebhook(fid, data.name, data.url, data.events, secretSeq + 1))
         /\ UNCHANGED <<deliveries, consents, deliverySeq, inflight, last, now, creating,
                        accounts>>
         /\ resp' = Ok("create", fid, 0, WebhookWithSecret(webhookSeq', webhooks'[webhookSeq']))

\* POST /api/webhooks
CreateNewWebhook(fid, data) ==
    IF ~ValidCreate(data)
    THEN resp' = Unprocessable("create", fid, 0) /\ UNCHANGED store
    ELSE IF Cardinality(FiduciaryWebhooks(fid)) >= 10
    THEN resp' = LimitReached(fid) /\ UNCHANGED store
    ELSE /\ CreateWebhook(fid, data)
         /\ UNCHANGED <<creating, accounts>>
         /\ resp' = Ok("create", fid, 0, WebhookWithSecret(webhookSeq', webhooks'[webhookSeq']))

\* GET /api/webhooks
ListWebhooks(fid) ==
    /\ resp' = Ok("list", fid, 0,
                  {WebhookToResponse(w, webhooks[w]) : w \in FiduciaryWebhooks(fid)})
    /\ UNCHANGED store

\* GET /api/webhooks/{uuid}
GetWebhook(w, fid) ==
    /\ resp' = IF WebhookFound(w, fid)
               THEN Ok("get", fid, w, WebhookToResponse(w, webhooks[w]))
               ELSE NotFound("get", fid, w)
    /\ UNCHANGED store

\* PUT /api/webhooks/{uuid}
UpdateExistingWebhook(w, fid, data) ==
    IF ~ValidUpdate(data)
    THEN resp' = Unprocessable("update", fid, w) /\ UNCHANGED store
    ELSE IF ~WebhookFound(w, fid)
    THEN resp' = NotFound("update", fid, w) /\ UNCHANGED store
    ELSE IF ~FitsColumns(data)
    THEN resp' = ServerError("update", fid, w) /\ UNCHANGED store
    ELSE /\ UpdateWebhook(w, fid, data)
         /\ UNCHANGED <<creating, accounts>>
         /\ resp' = Ok("update", fid, w, WebhookToResponse(w, webhooks'[w]))

\* DELETE /api/webhooks/{uuid}
DeleteExistingWebhook(w, fid) ==
    IF ~WebhookFound(w, fid)
    THEN resp' = NotFound("delete", fid, w) /\ UNCHANGED store
    ELSE /\ DeleteWebhook(w, fid)
         /\ UNCHANGED <<creating, accounts>>
         /\ resp' = Ok("delete", fid, w, "Webhook deleted successfully")

\* regenerate_webhook_secret
RegenerateWebhookSecret(w) ==
    /\ secretSeq' = secretSeq + 1
    /\ webhooks' = [webhooks EXCEPT ![w].secret = secretSeq + 1]

\* POST /api/webhooks/{uuid}/regenerate-secret
RegenerateSecret(w, fid) ==
    IF ~WebhookFound(w, fid)
    THEN resp' = NotFound("regenerate", fid, w) /\ UNCHANGED store
    ELSE /\ RegenerateWebhookSecret(w)
         /\ UNCHANGED <<deliveries, consents, webhookSeq, deliverySeq, inflight, last, now,
                        creating, accounts>>
         /\ resp' = Ok("regenerate", fid, w, [secret |-> webhooks'[w].secret])

\* POST /api/webhooks/{uuid}/test, up to the POST
TestWebhookEndpoint(w, fid) ==
    IF ~WebhookFound(w, fid)
    THEN resp' = NotFound("test", fid, w) /\ UNCHANGED store
    ELSE /\ TestWebhook(w, fid)
         /\ UNCHANGED <<creating, accounts>>
         /\ resp' = Waiting("test", fid, w)

\* the deliveries of webhook w, newest first, at most limit of them
\* (get_webhook_deliveries)
RECURSIVE NewestFirst(_)
NewestFirst(S) ==
    IF S = {} THEN <<>>
    ELSE LET m == CHOOSE x \in S : \A y \in S : x >= y
         IN <<m>> \o NewestFirst(S \ {m})
WebhookDeliveries(w, limit) ==
    LET ids == NewestFirst({d \in DOMAIN deliveries : deliveries[d].webhook_id = w})
    IN  SubSeq(ids, 1, IF Len(ids) < limit THEN Len(ids) ELSE limit)

\* the answer of the history: the rows ids as WebhookDeliveryResponse
DeliveriesAnswer(w, fid, ids) ==
    Ok("deliveries", fid, w,
       [i \in DOMAIN ids |-> WebhookDeliveryResponse(ids[i], deliveries[ids[i]])])

\* ListWebhookDeliveries passing the requested limit on as it is
ListWebhookDeliveriesUncapped(w, fid, limit) ==
    /\ resp' = IF ~WebhookFound(w, fid) THEN NotFound("deliveries", fid, w)
               ELSE IF limit < 0 THEN ServerError("deliveries", fid, w)
               ELSE DeliveriesAnswer(w, fid, WebhookDeliveries(w, limit))
    /\ UNCHANGED store

\* GET /api/webhooks/{uuid}/deliveries?limit=  (any integer is taken as the
\* limit; PostgreSQL refuses a negative LIMIT and the query raises)
ListWebhookDeliveries(w, fid, limit) ==
    /\ resp' = IF ~WebhookFound(w, fid) THEN NotFound("deliveries", fid, w)
               ELSE IF (IF limit < 100 THEN limit ELSE 100) < 0
               THEN ServerError("deliveries", fid, w)
               ELSE DeliveriesAnswer(w, fid,
                        WebhookDeliveries(w, IF limit < 100 THEN limit ELSE 100))
    /\ UNCHANGED store

\* the POST of a blocked handler comes back; a test handler answers with
\* WebhookTestResponse
DeliverEndAnswered(r, o) ==
    /\ DeliverEnd(r, o)
    /\ UNCHANGED <<creating, accounts>>
    /\ resp' = IF r.kind # "test" THEN Waiting(r.kind, r.fid, 0)
               ELSE IF r.cur \notin DOMAIN deliveries' THEN ServerError("test_result", r.fid, 0)
               ELSE Ok("test_result", r.fid, deliveries'[r.cur].webhook_id,
                       [success |-> deliveries'[r.cur].status = SUCCESS,
                        response_code |-> deliveries'[r.cur].response_code,
                        error_message |-> deliveries'[r.cur].error_message])

\* ---------------------------------------------------- the limit, one request at a time
MaxRegistry == 12     \* webhook rows ever inserted in the runs about the limit

\* the one create request of these runs
LimitCreates == [name : {3}, url : {ExampleUrl}, events : {{ALL}}]

\* One owner sends create and delete requests, one at a time, to a registry
\* in which another owner has registered a webhook before.
LimitOwners == {1}
OtherOwners == Fiduciaries \ LimitOwners

LimitInit ==
    \E fid \in OtherOwners, data \in LimitCreates :
        /\ webhooks = <<NewWebhook(fid, data.name, data.url, data.events, 1)>>
        /\ webhookSeq = 1
        /\ secretSeq = 1
        /\ resp = Ok("create", fid, 0, WebhookWithSecret(1, webhooks[1]))
        /\ deliveries = <<>> /\ consents = <<>> /\ deliverySeq = 0
        /\ inflight = {} /\ last = "none" /\ now = 0 /\ creating = <<>>
        /\ accounts = Fiduciaries

LimitNext ==
    \/ \E fid \in LimitOwners, data \in LimitCreates :
          /\ (Cardinality(FiduciaryWebhooks(fid)) < 10 => webhookSeq < MaxRegistry)
          /\ CreateNewWebhook(fid, data)
    \/ \E w \in 1..MaxRegistry, fid \in LimitOwners : DeleteExistingWebhook(w, fid)

LimitSpec == LimitInit /\ [][LimitNext]_vars

\* ---------------------------------------------------- the limit, concurrent requests
\* create_new_webhook runs in a thread of the pool: its count query and its
\* insert are two statements, and other handlers run between them.
MaxCreating == 2      \* create handlers between their count and their insert

\* create_new_webhook up to its insert: the schema, the count, the limit
CreateCount(fid, data) ==
    IF ~ValidCreate(data)
    THEN resp' = Unprocessable("create", fid, 0) /\ UNCHANGED store
    ELSE IF Cardinality(FiduciaryWebhooks(fid)) >= 10
    THEN resp' = LimitReached(fid) /\ UNCHANGED store
    ELSE /\ creating' = Append(creating, [fid |-> fid, data |-> data])
         /\ resp' = Waiting("create", fid, 0)
         /\ UNCHANGED <<webhooks, deliveries, consents, webhookSeq, deliverySeq, inflight,
                        last, now, secretSeq, accounts>>

\* create_new_webhook from its insert: create_webhook and the answer
CreateInsert(i) ==
    /\ i \in DOMAIN creating
    /\ webhookSeq' = webhookSeq + 1
    /\ secretSeq' = secretSeq + 1
    /\ webhooks' = With(webhooks, webhookSeq + 1,
                        NewWebhook(creating[i].fid, creating[i].data.name,
                                   creating[i].data.url, creating[i].data.events,
                                   secretSeq + 1))
    /\ creating' = [j \in 1..(Len(creating) - 1) |->
                        IF j < i THEN creating[j] ELSE creating[j + 1]]
    /\ resp' = Ok("create", creating[i].fid, 0,
                  WebhookWithSecret(webhookSeq', webhooks'[webhookSeq']))
    /\ UNCHANGED <<deliveries, consents, deliverySeq, inflight, last, now, accounts>>

RaceNext ==
    \/ \E fid \in LimitOwners, data \in LimitCreates :
          /\ Len(creating) < MaxCreating
          /\ (Cardinality(FiduciaryWebhooks(fid)) < 10
                 => webhookSeq + Len(creating) < MaxRegistry)
          /\ CreateCount(fid, data)
    \/ \E i \in 1..MaxCreating : CreateInsert(i)
    \/ \E w \in 1..MaxRegistry, fid \in LimitOwners : DeleteExistingWebhook(w, fid)

RaceSpec == LimitInit /\ [][RaceNext]_vars

\* ---------------------------------------------------- account deletion
\* POST /api/settings/fiduciary/delete-account: one transaction deletes the
\* deliveries of the account's webhooks, its webhooks, its consents, its
\* purposes and the account.  (Every consent of this model belongs to the
\* fiduciary of the one purpose, so the consents that remain keep their ids.)
DeleteFiduciaryAccount(fid) ==
    /\ fid \in accounts
    /\ accounts' = accounts \ {fid}
    /\ webhooks' = [w \in DOMAIN webhooks \ FiduciaryWebhooks(fid) |-> webhooks[w]]
    /\ deliveries' = [d \in {x \in DOMAIN deliveries :
                                deliveries[x].webhook_id \notin FiduciaryWebhooks(fid)}
                        |-> deliveries[d]]
    /\ consents' = SelectSeq(consents, LAMBDA c : c.fiduciary_id # fid)
    /\ UNCHANGED <<webhookSeq, deliverySeq, inflight, last, now, secretSeq, creating, resp>>

\* The delivery pipeline with accounts that can be deleted: a request needs
\* its account (401 otherwise), a grant needs its purpose (404 otherwise).
CascadeNext ==
    \/ \E fid \in Fiduciaries, data \in PlainCreates :
          /\ fid \in accounts /\ webhookSeq < MaxWebhooks
          /\ CreateWebhook(fid, data) /\ UNCHANGED aside
    \/ \E w \in 1..MaxWebhooks, fid \in Fiduciaries, data \in UpdateRequests :
          fid \in accounts /\ UpdateWebhook(w, fid, data) /\ UNCHANGED aside
    \/ \E w \in 1..MaxWebhooks, fid \in Fiduciaries :
          fid \in accounts /\ DeleteWebhook(w, fid) /\ UNCHANGED aside
    \/ \E w \in 1..MaxWebhooks, fid \in Fiduciaries :
          fid \in accounts /\ TestWebhook(w, fid) /\ UNCHANGED aside
    \/ \E u \in Users, p \in Purposes :
          PurposeFiduciary(p) \in accounts /\ Len(consents) < MaxConsents /\ GrantConsent(u, p) /\ UNCHANGED aside
    \/ \E u \in Users, c \in 1..MaxConsents : RevokeConsent(u, c) /\ UNCHANGED aside
    \/ \E r \in inflight, o \in Outcomes : DeliverEnd(r, o) /\ UNCHANGED aside
    \/ \E fid \in Fiduciaries : DeleteFiduciaryAccount(fid)

CascadeSpec == Init /\ [][CascadeNext]_vars

\* ---------------------------------------------------- the management API
MaxSecrets == 3       \* secrets ever generated in the runs of the management API

\* the requests of these runs
MgmtUpdates == [given : {{"is_active"}}, events : {{}}, is_active : {FALSE}]
Limits == {1, 50}
TestOutcomes == [kind : {"response"}, code : {200, 300}]

MgmtNext ==
    \/ \E fid \in Fiduciaries, data \in LimitCreates :
          /\ webhookSeq < MaxWebhooks /\ secretSeq < MaxSecrets
          /\ CreateNewWebhook(fid, data)
    \/ \E fid \in Fiduciaries : ListWebhooks(fid)
    \/ \E w \in 1..MaxWebhooks, fid \in Fiduciaries : GetWebhook(w, fid)
    \/ \E w \in 1..MaxWebhooks, fid \in Fiduciaries, data \in MgmtUpdates :
          UpdateExistingWebhook(w, fid, data)
    \/ \E w \in 1..MaxWebhooks, fid \in Fiduciaries : DeleteExistingWebhook(w, fid)
    \/ \E w \in 1..MaxWebhooks, fid \in Fiduciaries :
          (WebhookFound(w, fid) => secretSeq < MaxSecrets) /\ RegenerateSecret(w, fid)
    \/ \E w \in 1..MaxWebhooks, fid \in Fiduciaries : TestWebhookEndpoint(w, fid)
    \/ \E w \in 1..MaxWebhooks, fid \in Fiduciaries, limit \in Limits :
          ListWebhookDeliveries(w, fid, limit)
    \/ \E r \in inflight, o \in TestOutcomes : DeliverEndAnswered(r, o)

MgmtSpec == Init /\ [][MgmtNext]_vars

\* ------------------------------------------------- the trail of deliveries
\* Every operation that can meet a delivery row, for one owner: the
\* management API with its history reads and secret regenerations, consent
\* triggers, POSTs that end in each way, and the deletion of the account.
TrailNext ==
    \/ \E fid \in LimitOwners, data \in LimitCreates :
          /\ fid \in accounts /\ webhookSeq < MaxWebhooks /\ secretSeq < MaxSecrets
          /\ CreateNewWebhook(fid, data)
    \/ \E w \in 1..MaxWebhooks, fid \in LimitOwners, data \in MgmtUpdates :
          fid \in accounts /\ UpdateExistingWebhook(w, fid, data)
    \/ \E w \in 1..MaxWebhooks, fid \in LimitOwners :
          fid \in accounts /\ DeleteExistingWebhook(w, fid)
    \/ \E w \in 1..MaxWebhooks, fid \in LimitOwners :
          /\ fid \in accounts /\ (WebhookFound(w, fid) => secretSeq < MaxSecrets)
          /\ RegenerateSecret(w, fid)
    \/ \E w \in 1..MaxWebhooks, fid \in LimitOwners :
          fid \in accounts /\ TestWebhookEndpoint(w, fid)
    \/ \E w \in 1..MaxWebhooks, fid \in LimitOwners, limit \in Limits :
          fid \in accounts /\ ListWebhookDeliveries(w, fid, limit)
    \/ \E u \in Users, p \in Purposes :
          /\ PurposeFiduciary(p) \in accounts /\ Len(consents) < MaxConsents
          /\ GrantConsent(u, p) /\ resp' = NoAnswer /\ UNCHANGED <<creating, accounts>>
    \/ \E r \in inflight, o \in Outcomes : DeliverEndAnswered(r, o)
    \/ \E fid \in LimitOwners : DeleteFiduciaryAccount(fid)

TrailSpec == Init /\ [][TrailNext]_vars

\* ================================================================ claims
Rows == DOMAIN deliveries
IsSet(x) == x # None

\* the failure branches of deliver_webhook that schedule a retry
RetriedFailures == {"HTTP", "Request timed out", "request error"}

\* the row of delivery d has just been committed as failed by this step
FailsNow(d) ==
    /\ d \in Rows /\ deliveries[d].status = PENDING
    /\ d \in DOMAIN deliveries' /\ deliveries'[d].status = FAILED

\* C4: a delivery row is success exactly when the endpoint answered with a
\* status in [200,300); a success row has its response code recorded,
\* delivered_at set and next_retry_at unset.
C4_SuccessIffTwoHundreds ==
    \A d \in Rows :
        /\ deliveries[d].status = SUCCESS <=> deliveries[d].response_code \in 200..299
        /\ deliveries[d].status = SUCCESS =>
              /\ IsSet(deliveries[d].delivered_at)
              /\ ~IsSet(deliveries[d].next_retry_at)

C4_Witness ==
    \E d \in Rows :
        /\ deliveries[d].status = SUCCESS
        /\ deliveries[d].response_code = 299
        /\ deliveries[d].delivered_at = now

\* C5: a first attempt that fails with a non-2xx response, a timeout or a
\* connection error leaves the row failed, with attempt_count = 1 and
\* next_retry_at 60 seconds (the first entry of the retry schedule) after
\* the failure.
C5_FirstRetryAfterSixtySeconds ==
    [][\A d \in Rows :
          (FailsNow(d) /\ deliveries'[d].error_message \in RetriedFailures) =>
              /\ deliveries'[d].attempt_count = 1
              /\ deliveries'[d].next_retry_at = now + WEBHOOK_RETRY_DELAYS[1]]_vars

C7_DeliveredIffSuccess ==
    \A d \in Rows : IsSet(deliveries[d].delivered_at) <=> deliveries[d].status = SUCCESS

C7_Witness ==
    \E d, e \in Rows :
        /\ deliveries[d].status = SUCCESS /\ IsSet(deliveries[d].delivered_at)
        /\ deliveries[e].status = FAILED /\ ~IsSet(deliveries[e].delivered_at)
        /\ deliveries[e].response_code = 300

\* C8: next_retry_at of a delivery row is set if and only if its status is
\* failed and its attempt_count is below the maximum of 3 attempts.
C8_RetryScheduledIffFailedWithBudget ==
    \A d \in Rows :
        IsSet(deliveries[d].next_retry_at) <=>
            (deliveries[d].status = FAILED
             /\ deliveries[d].attempt_count < WEBHOOK_MAX_RETRIES)

\* the subscriptions of owner fid that are active and subscribed to
\* event_type, by name or by the wildcard
Subscribed(fid, event_type) ==
    {w \in DOMAIN webhooks :
        /\ webhooks[w].fiduciary_id = fid
        /\ webhooks[w].is_active
        /\ (event_type \in webhooks[w].events \/ "all" \in webhooks[w].events)}

ConsentHandlers == {"grant", "revoke"}

\* this step is the start of a grant or of a revoke, which commit a consent
\* and then trigger; the owner and the event of that trigger
StartsTrigger == consents' # consents
IsGrant == Len(consents') > Len(consents)
TriggerFid ==
    IF IsGrant THEN consents'[Len(consents')].fiduciary_id
    ELSE consents[CHOOSE c \in DOMAIN consents : consents'[c] # consents[c]].fiduciary_id
TriggerEvent == IF IsGrant THEN "consent.granted" ELSE "consent.revoked"

\* handler r ends in this step (it does not go on to another POST)
Ends(r) == r \notin inflight' /\ \A r2 \in inflight' : r.cur \notin r2.created

\* C1: the delivery rows a trigger creates are exactly one per subscription
\* that belongs to the owner, is active and has the event or the wildcard in
\* its event set; with no such subscription the trigger creates no row and
\* returns.  (Handlers one at a time: the registry is the same from the
\* trigger's query to its return.)
C1_OneRowPerSubscription ==
    [][/\ (StartsTrigger /\ inflight' = {}) =>
            /\ Subscribed(TriggerFid, TriggerEvent) = {}
            /\ deliveries' = deliveries
            /\ last' = Returned
       /\ (StartsTrigger /\ inflight' # {}) =>
            \A r \in inflight' : r.fid = TriggerFid /\ r.event = TriggerEvent
       /\ \A r \in inflight : (r.kind \in ConsentHandlers /\ Ends(r)) =>
            /\ last' = Returned
            /\ r.created \subseteq DOMAIN deliveries'
            /\ {deliveries'[d].webhook_id : d \in r.created} = Subscribed(r.fid, r.event)
            /\ Cardinality(r.created) = Cardinality(Subscribed(r.fid, r.event))
            /\ \A d \in r.created : deliveries'[d].event_type = r.event
       /\ \A d \in DOMAIN deliveries' \ DOMAIN deliveries :
            deliveries'[d].event_type # "test" =>
                \E r \in inflight' :
                    /\ r.cur = d
                    /\ deliveries'[d].event_type = r.event
                    /\ deliveries'[d].webhook_id \in Subscribed(r.fid, r.event)
      ]_vars

\* a grant for owner 1 ended with one row, for the wildcard subscription of
\* owner 1, and none for the active wildcard subscription of owner 2
C1_Witness ==
    /\ inflight = {} /\ last = Returned
    /\ Len(consents) = 1 /\ consents[1].status = GRANTED
    /\ DOMAIN webhooks = {1, 2}
    /\ webhooks[1].fiduciary_id = 2 /\ webhooks[1].is_active /\ webhooks[1].events = {"all"}
    /\ webhooks[2].fiduciary_id = 1 /\ webhooks[2].is_active /\ webhooks[2].events = {"all"}
    /\ Rows = {1}
    /\ deliveries[1].webhook_id = 2 /\ deliveries[1].event_type = "consent.granted"
    /\ deliveries[1].status # PENDING

\* the webhook the loop of handler r delivers to next, 0 when there is none
RECURSIVE NextSubscribed(_, _)
NextSubscribed(r, rest) ==
    IF rest = <<>> \/ Head(rest) \notin DOMAIN webhooks THEN 0
    ELSE IF Head(rest) \in Subscribed(r.fid, r.event) THEN Head(rest)
    ELSE NextSubscribed(r, Tail(rest))

\* C2: within one trigger, a failed delivery to one subscription does not
\* prevent the delivery to the next matching subscription: that subscription
\* gets its own row and its own POST.
C2_FailureDoesNotStopTheLoop ==
    [][\A r \in inflight :
          (FailsNow(r.cur) /\ NextSubscribed(r, r.rest) # 0) =>
              \E r2 \in inflight' :
                  /\ r2.created = r.created \cup {r2.cur}
                  /\ r2.cur \notin Rows
                  /\ r2.cur \in DOMAIN deliveries'
                  /\ deliveries'[r2.cur].webhook_id = NextSubscribed(r, r.rest)
                  /\ deliveries'[r2.cur].status = PENDING]_vars

\* a trigger is in its second POST after its first delivery failed
C2_Witness ==
    \E r \in inflight : \E d \in r.created :
        /\ d # r.cur /\ d \in Rows /\ r.cur \in Rows
        /\ deliveries[d].status = FAILED
        /\ deliveries[r.cur].status = PENDING
        /\ deliveries[d].webhook_id # deliveries[r.cur].webhook_id

\* the rows that the loop of handler r still reads all exist
RestExists(r) == \A i \in 1..Len(r.rest) : r.rest[i] \in DOMAIN webhooks

\* C3: whatever the outcome of a POST, it leaves the consents as they are
\* and the grant or revoke that issued it returns its response; a grant or
\* revoke ends with an exception only when a row it uses was deleted under
\* it, never because a delivery failed.
C3_DeliveryFailureNotRaised ==
    [][\A r \in inflight :
          (r.kind \in ConsentHandlers /\ r \notin inflight') =>
              /\ consents' = consents
              /\ (Ends(r) /\ r.cur \in Rows /\ RestExists(r)) => last' = Returned
              /\ (Ends(r) /\ last' = Raised) => (r.cur \notin Rows \/ ~RestExists(r))]_vars

\* a revoke returned although its delivery failed, and the consent is revoked
C3_Witness ==
    /\ inflight = {} /\ last = Returned
    /\ Len(consents) = 1 /\ consents[1].status = REVOKED
    /\ \E d \in Rows :
          /\ deliveries[d].event_type = "consent.revoked"
          /\ deliveries[d].status = FAILED
          /\ deliveries[d].error_message = "Unexpected error"

\* C9: a failed row with attempts left whose next_retry_at has elapsed, of an
\* active subscription, is eventually attempted again: its status becomes
\* retrying or its attempt_count grows.
RetryDue(d) ==
    /\ d \in Rows
    /\ deliveries[d].status = FAILED
    /\ deliveries[d].attempt_count < WEBHOOK_MAX_RETRIES
    /\ IsSet(deliveries[d].next_retry_at)
    /\ deliveries[d].next_retry_at <= now
    /\ deliveries[d].webhook_id \in DOMAIN webhooks
    /\ webhooks[deliveries[d].webhook_id].is_active

Retried(d) ==
    /\ d \in Rows
    /\ \/ deliveries[d].status \in {RETRYING, SUCCESS}
       \/ deliveries[d].attempt_count > 1

C9_DueRetryEventuallyRuns ==
    \A d \in 1..MaxDeliveries : RetryDue(d) ~> (Retried(d) \/ ~RetryDue(d))

FiduciaryWebhooksAfter(fid) ==
    {w \in DOMAIN webhooks' : webhooks'[w].fiduciary_id = fid}

\* C11: with one owner sending create and delete requests one at a time, a
\* create is answered 400 (limit reached) exactly when the owner already has
\* 10 webhooks; the rejected create adds no webhook and changes nothing else;
\* an accepted create adds one webhook of the owner; and the create that
\* follows a delete of one of the owner's webhooks is accepted.
C11_LimitReachedExactlyAtTen ==
    [][resp'.op = "create" =>
          /\ resp'.status \in {200, 400}
          /\ resp'.status = 400 <=> Cardinality(FiduciaryWebhooks(resp'.fid)) >= 10
          /\ resp'.status = 400 => UNCHANGED store
          /\ resp'.status = 200 =>
                /\ FiduciaryWebhooksAfter(resp'.fid) =
                       FiduciaryWebhooks(resp'.fid) \cup {webhookSeq'}
                /\ webhookSeq' \notin DOMAIN webhooks
                /\ \A w \in DOMAIN webhooks : webhooks'[w] = webhooks[w]
          /\ (resp.op = "delete" /\ resp.status = 200 /\ resp.fid = resp'.fid)
                => resp'.status = 200
      ]_vars

\* the owner is refused an 11th webhook after one of its first ten was
\* deleted and replaced, while the other owner's webhook is still there
C11_Witness ==
    /\ resp = LimitReached(1)
    /\ Cardinality(FiduciaryWebhooks(1)) = 10
    /\ webhookSeq = MaxRegistry
    /\ Cardinality(DOMAIN webhooks) = 11

\* C12: no owner has more than 10 webhooks, in every reachable state, also
\* when create requests of one owner run concurrently (each counts the
\* owner's webhooks, then inserts).
C12_NeverMoreThanTen ==
    \A fid \in Fiduciaries : Cardinality(FiduciaryWebhooks(fid)) <= 10

\* C13: every delivery row references an existing webhook; a step that
\* deletes webhooks (a delete of one webhook, or of a fiduciary's account)
\* removes all the delivery rows of those webhooks and no other row, also
\* while a trigger or a test is blocked in a POST to one of them.
C13_DeliveriesFollowTheirWebhook ==
    /\ [](\A d \in Rows : deliveries[d].webhook_id \in DOMAIN webhooks)
    /\ [][Rows \ DOMAIN deliveries' =
             {d \in Rows : deliveries[d].webhook_id \notin DOMAIN webhooks'}]_vars

\* an account was deleted while one of its handlers was blocked in a POST:
\* the handler's row is gone with the webhook, another owner's row is kept
C13_Witness ==
    \E r \in inflight :
        /\ r.fid \notin accounts
        /\ r.cur \notin Rows
        /\ FiduciaryWebhooks(r.fid) = {}
        /\ \E d \in Rows : webhooks[deliveries[d].webhook_id].fiduciary_id # r.fid

\* ---------------------------------------------------- the URL validator alone
\* validate_url_safe is applied to one URL text after the other.  A URL with
\* a host is written scheme://[user@]host[:port][/path]; resp holds the host
\* the text was written with, the text, and then the verdict.
\* the schemes HttpUrl lets through
UrlSchemes ==
    {<<"h", "t", "t", "p">>,      \* http
     <<"h", "t", "t", "p", "s">>}      \* https

\* the user part of the authority: none, or a name
UrlUsers ==
    {<<>>,      \* the empty string
     <<"u", "s", "e", "r", "@">>}      \* user@

\* the hosts of the URLs that are validated
UrlHosts ==
    {<<"1", "2", "7", ".", "0", ".", "0", ".", "1">>,      \* 127.0.0.1
     <<"1", "0", ".", "0", ".", "0", ".", "5">>,      \* 10.0.0.5
     <<"1", "9", "2", ".", "1", "6", "8", ".", "1", ".", "1">>,      \* 192.168.1.1
     <<"1", "6", "9", ".", "2", "5", "4", ".", "1", "6", "9", ".", "2", "5", "4">>,      \* 169.254.169.254
     <<"l", "o", "c", "a", "l", "h", "o", "s", "t">>,      \* localhost
     <<"L", "O", "C", "A", "L", "H", "O", "S", "T">>,      \* LOCALHOST
     <<"e", "x", "a", "m", "p", "l", "e", ".", "c", "o", "m">>,      \* example.com
     <<"E", "x", "a", "m", "p", "l", "e", ".", "C", "O", "M">>,      \* Example.COM
     <<"0", ".", "0", ".", "0", ".", "0">>,      \* 0.0.0.0
     <<"8", ".", "8", ".", "8", ".", "8">>,      \* 8.8.8.8
     <<"1", "7", "2", ".", "1", "6", ".", "0", ".", "1">>,      \* 172.16.0.1
     <<"1", "7", "2", ".", "3", "2", ".", "0", ".", "1">>,      \* 172.32.0.1
     <<"1", "9", "2", ".", "1", "6", "9", ".", "1", ".", "1">>,      \* 192.169.1.1
     <<"1", "1", ".", "0", ".", "0", ".", "1">>,      \* 11.0.0.1
     <<"1", "2", "7", ".", "0", ".", "0", ".", "2">>,      \* 127.0.0.2
     <<"2", "4", "0", ".", "0", ".", "0", ".", "1">>,      \* 240.0.0.1
     <<"1", "9", "8", ".", "5", "1", ".", "1", "0", "0", ".", "7">>,      \* 198.51.100.7
     <<"1", "0", ".", "e", "x", "a", "m", "p", "l", "e", ".", "c", "o", "m">>,      \* 10.example.com
     <<"a", "p", "i", ".", "i", "n", "t", "e", "r", "n", "a", "l">>,      \* api.internal
     <<"p", "r", "i", "n", "t", "e", "r", ".", "l", "o", "c", "a", "l">>,      \* printer.local
     <<"i", "n", "t", "r", "a", "n", "e", "t">>,      \* intranet
     <<"m", "y", "-", "h", "o", "s", "t">>,      \* my-host
     <<"m", "y", "_", "h", "o", "s", "t">>,      \* my_host
     <<"d", "b", "1">>,      \* db1
     <<"h", "o", "o", "k", "s", ".", "e", "x", "a", "m", "p", "l", "e", ".", "o", "r", "g">>,      \* hooks.example.org
     <<"0", "1", "0", ".", "0", ".", "0", ".", "5">>,      \* 010.0.0.5
     <<"1", ".", "2", ".", "3">>}      \* 1.2.3

\* what follows the host: nothing, a path, a port and a path
UrlSuffixes ==
    {<<>>,      \* the empty string
     <<"/", "h", "o", "o", "k">>,      \* /hook
     <<":", "8", "4", "4", "3", "/", "h", "o", "o", "k">>}      \* :8443/hook

\* texts without a host, or with a host urlparse refuses
MalformedUrls ==
    {<<>>,      \* the empty string
     <<"e", "x", "a", "m", "p", "l", "e", ".", "c", "o", "m", "/", "h", "o", "o", "k">>,      \* example.com/hook
     <<"h", "t", "t", "p", "s", ":", "/", "/", "/", "h", "o", "o", "k">>,      \* https:///hook
     <<"h", "t", "t", "p", ":", "/", "/", "[", ":", ":", "1", "/", "h", "o", "o", "k">>,      \* http://[::1/hook
     <<"h", "t", "t", "p", ":", "/", "/", ":", ":", "1", "]", "/", "h", "o", "o", "k">>,      \* http://::1]/hook
     <<"h", "t", "t", "p", "s", ":", "/", "/">>,      \* https://
     <<"/", "/">>,      \* //
     <<"h", "t", "t", "p", ":", "/", "/", "u", "s", "e", "r", "@", "/", "h", "o", "o", "k">>,      \* http://user@/hook
     <<"h", "t", "t", "p", ":", "e", "x", "a", "m", "p", "l", "e", ".", "c", "o", "m">>,      \* http:example.com
     <<"h", "t", "t", "p", ":", "/", "/", "[", "e", "x", "a", "m", "p", "l", "e", ".", "c", "o", "m", "]", "/", "h", "o", "o", "k">>}      \* http://[example.com]/hook

UrlInputs ==
    {[host |-> h, url |-> s \o <<":", "/", "/">> \o u \o h \o t] :
        s \in UrlSchemes, u \in UrlUsers, h \in UrlHosts, t \in UrlSuffixes}
    \cup {[host |-> <<>>, url |-> m] : m \in MalformedUrls}

UrlInit ==
    /\ webhooks = <<>> /\ deliveries = <<>> /\ consents = <<>>
    /\ webhookSeq = 0 /\ deliverySeq = 0 /\ inflight = {}
    /\ last = "none" /\ now = 0 /\ secretSeq = 0
    /\ creating = <<>> /\ accounts = Fiduciaries
    /\ resp \in {[op |-> "validate_url", fid |-> 0, w |-> 0, status |-> 0,
                   host |-> in.host, url |-> in.url] : in \in UrlInputs}

\* validate_url_safe: the ValueError 'URL points to a private or internal
\* network address' when the URL is refused
ValidateUrlSafe ==
    /\ resp.op = "validate_url"
    /\ resp' = [op |-> "url_validated", fid |-> 0, w |-> 0, status |-> 0,
                host |-> resp.host, url |-> resp.url,
                refused |-> IsPrivateOrInternalUrl(resp.url)]
    /\ UNCHANGED store

UrlSpec == UrlInit /\ [][ValidateUrlSafe]_vars

\* ---------------------------------------------------- request validation
\* One owner sends create and update requests with names of every length of
\* Names and with event lists that are empty, valid, or hold an unknown event.
UnknownEvent == "consent.deleted"
ValidationEventLists ==
    {{}, {CONSENT_GRANTED}, {ALL}, {UnknownEvent}, {CONSENT_REVOKED, UnknownEvent}}

ValidationCreates == [name : Names, url : {ExampleUrl}, events : ValidationEventLists]

ValidationUpdates ==
    [given : {{"name"}}, name : Names, events : {{}}, is_active : {TRUE}]
    \cup [given : {{"events"}}, name : {3}, events : ValidationEventLists, is_active : {TRUE}]

ValidationNext ==
    \/ \E fid \in LimitOwners, data \in ValidationCreates :
          /\ (ValidCreate(data) => webhookSeq < MaxWebhooks)
          /\ CreateNewWebhook(fid, data)
    \/ \E w \in 1..MaxWebhooks, fid \in LimitOwners, data \in ValidationUpdates :
          UpdateExistingWebhook(w, fid, data)

ValidationSpec == Init /\ [][ValidationNext]_vars

\* ------------------------------------------------------- URLs that are stored
\* One owner sends create and update requests whose url field is the text of
\* a parsed HttpUrl, one of RequestUrls, and updates that supply no URL.
UrlCreates == [name : {3}, url : RequestUrls, events : {{ALL}}]

UrlUpdates ==
    [given : {{"url"}}, url : RequestUrls]
    \cup [given : {{"is_active"}}, is_active : BOOLEAN]
    \cup [given : {{"events"}}, events : EventLists]

StoredUrlNext ==
    \/ \E fid \in LimitOwners, data \in UrlCreates :
          /\ (ValidCreate(data) => webhookSeq < MaxWebhooks)
          /\ CreateNewWebhook(fid, data)
    \/ \E w \in 1..MaxWebhooks, fid \in LimitOwners, data \in UrlUpdates :
          UpdateExistingWebhook(w, fid, data)

StoredUrlSpec == Init /\ [][StoredUrlNext]_vars

\* ---------------------------------------------------- the delivery history
\* The history of a webhook is read with every limit of HistoryLimits from a
\* registry that holds up to MaxHistory delivery rows: the state after one
\* owner created two webhooks and sent that many test requests, one at a
\* time and each answered 200, every fiftieth of them to the second webhook.
MaxHistory == 105     \* delivery rows in the runs about the history
HistoryLimits == {-1, 0, 1, 50, 99, 100, 101, 1000}
HistorySizes == {0, 1, 2, 3, 10, 50, 51, 60} \cup {n \in 99..MaxHistory : TRUE}

HistoryWebhook(d) == IF d % 50 = 0 THEN 2 ELSE 1

HistoryInit ==
    /\ webhooks = [w \in 1..2 |-> NewWebhook(1, 3, ExampleUrl, {ALL}, w)]
    /\ webhookSeq = 2 /\ secretSeq = 2
    /\ \E n \in HistorySizes :
          /\ deliverySeq = n
          /\ deliveries = [d \in 1..n |->
                               Finish(NewDelivery(HistoryWebhook(d), "test", Payload("test", 0)),
                                      [kind |-> "response", code |-> 200], 0)]
    /\ consents = <<>> /\ inflight = {} /\ last = "none" /\ now = 0
    /\ creating = <<>> /\ accounts = Fiduciaries
    /\ resp = NoAnswer

HistoryNext ==
    \E w \in 1..3, fid \in Fiduciaries, limit \in HistoryLimits :
        ListWebhookDeliveries(w, fid, limit)

HistorySpec == HistoryInit /\ [][HistoryNext]_vars

\* ---------------------------------------------------- the consent API
\* The handlers of routers/consents.py and the SDK check of routers/sdk.py as
\* their callers see them.  No webhook is registered in these runs, so a
\* trigger returns at once.
MaxGrants == 2        \* consent rows ever inserted in the runs of the consent API
MaxDays == 2          \* days that pass in the runs of the consent API

ConsentUsers == {1, 2}
\* purpose p belongs to fiduciary p
ConsentPurposes == {1, 2}

\* DataFiduciary.api_key (unique); no fiduciary has the key 0
ApiKey(fid) == fid + 10
ApiKeys == {ApiKey(fid) : fid \in Fiduciaries} \cup {0}

\* is_consent_expired
IsConsentExpired(consent) ==
    IF consent.status = REVOKED THEN FALSE
    ELSE IF consent.expires_at = None THEN FALSE
    ELSE now > consent.expires_at

\* check_and_update_expired_consent: the row after the check
CheckAndUpdateExpiredConsent(consent) ==
    IF consent.status = GRANTED /\ IsConsentExpired(consent)
    THEN [consent EXCEPT !.status = EXPIRED]
    ELSE consent

\* services/expiry.py renew_consent: the row after the renewal
RenewedConsent(consent) ==
    [consent EXCEPT !.status = IF @ = EXPIRED THEN GRANTED ELSE @,
                    !.expires_at = now + RetentionPeriodDays(consent.purpose_id) * SecondsPerDay]

\* the answer to user u's request op about consent c (0 when it names none)
ConsentAnswer(op, u, c, status) == [op |-> op, user |-> u, consent |-> c, status |-> status]

\* POST /api/consents/grant
GrantConsentAnswered(u, p) ==
    IF \E c \in DOMAIN consents :
           /\ consents[c].user_id = u
           /\ consents[c].purpose_id = p
           /\ consents[c].status = GRANTED
    THEN resp' = ConsentAnswer("grant", u, 0, 400) /\ UNCHANGED store
    ELSE /\ GrantConsent(u, p)
         /\ UNCHANGED <<creating, accounts>>
         /\ resp' = ConsentAnswer("grant", u, Len(consents) + 1, 200)

\* POST /api/consents/revoke
RevokeConsentAnswered(u, c) ==
    IF ~(c \in DOMAIN consents /\ consents[c].user_id = u)
    THEN resp' = ConsentAnswer("revoke", u, c, 404) /\ UNCHANGED store
    ELSE IF consents[c].status = REVOKED
    THEN resp' = ConsentAnswer("revoke", u, c, 400) /\ UNCHANGED store
    ELSE /\ RevokeConsent(u, c)
         /\ UNCHANGED <<creating, accounts>>
         /\ resp' = ConsentAnswer("revoke", u, c, 200)

\* POST /api/consents/renew
RenewConsent(u, c) ==
    IF ~(c \in DOMAIN consents /\ consents[c].user_id = u)
    THEN resp' = ConsentAnswer("renew", u, c, 404) /\ UNCHANGED store
    ELSE IF consents[c].status = REVOKED
    THEN resp' = ConsentAnswer("renew", u, c, 400) /\ UNCHANGED store
    ELSE /\ consents' = [consents EXCEPT ![c] = RenewedConsent(@)]
         /\ resp' = ConsentAnswer("renew", u, c, 200)
         /\ UNCHANGED <<webhooks, deliveries, webhookSeq, deliverySeq, inflight, last, now,
                        secretSeq, creating, accounts>>

\* GET /api/consents?status=: the lazy expiry check over the rows of the
\* query, then the rows as they are stored
ListMyConsents(u, status) ==
    LET listed == {c \in DOMAIN consents :
                      /\ consents[c].user_id = u
                      /\ (status # "any" => consents[c].status = status)}
    IN  /\ consents' = [c \in DOMAIN consents |->
                           IF c \in listed THEN CheckAndUpdateExpiredConsent(consents[c])
                           ELSE consents[c]]
        /\ resp' = [op |-> "list_consents", user |-> u, consent |-> 0, status |-> 200,
                    body |-> {[id |-> c, status |-> consents'[c].status] : c \in listed}]
        /\ UNCHANGED <<webhooks, deliveries, webhookSeq, deliverySeq, inflight, last, now,
                       secretSeq, creating, accounts>>

\* get_fiduciary_by_api_key: the fiduciaries that hold the key
FiduciaryByApiKey(key) == {fid \in accounts : ApiKey(fid) = key}

\* SdkCheckConsent without the filter on the fiduciary
SdkCheckConsentAnyFiduciary(key, u, p) ==
    /\ resp' =
          IF FiduciaryByApiKey(key) = {}
          THEN [op |-> "check_consent", key |-> key, user |-> u, status |-> 401]
          ELSE LET result == {c \in DOMAIN consents :
                                 /\ consents[c].user_id = u
                                 /\ consents[c].status = GRANTED
                                 /\ (p \in ConsentPurposes => consents[c].purpose_id = p)}
               IN  [op |-> "check_consent", key |-> key, user |-> u, status |-> 200,
                    has_consent |-> result # {}, consents |-> result]
    /\ UNCHANGED store

\* SdkCheckConsent without the filter on the status
SdkCheckConsentAnyStatus(key, u, p) ==
    /\ resp' =
          IF FiduciaryByApiKey(key) = {}
          THEN [op |-> "check_consent", key |-> key, user |-> u, status |-> 401]
          ELSE LET fid == CHOOSE f \in FiduciaryByApiKey(key) : TRUE
                   result == {c \in DOMAIN consents :
                                 /\ consents[c].user_id = u
                                 /\ consents[c].fiduciary_id = fid
                                 /\ (p \in ConsentPurposes => consents[c].purpose_id = p)}
               IN  [op |-> "check_consent", key |-> key, user |-> u, status |-> 200,
                    has_consent |-> result # {}, consents |-> result]
    /\ UNCHANGED store

\* POST /api/sdk/check-consent with an API key, a user and a purpose
\* (0: none given)
SdkCheckConsent(key, u, p) ==
    /\ resp' =
          IF FiduciaryByApiKey(key) = {}
          THEN [op |-> "check_consent", key |-> key, user |-> u, status |-> 401]
          ELSE LET fid == CHOOSE f \in FiduciaryByApiKey(key) : TRUE
                   result == {c \in DOMAIN consents :
                                 /\ consents[c].user_id = u
                                 /\ consents[c].fiduciary_id = fid
                                 /\ consents[c].status = GRANTED
                                 /\ (p \in ConsentPurposes => consents[c].purpose_id = p)}
               IN  [op |-> "check_consent", key |-> key, user |-> u, status |-> 200,
                    has_consent |-> result # {}, consents |-> result]
    /\ UNCHANGED store

\* a day passes
DayPasses ==
    /\ now + SecondsPerDay <= MaxDays * SecondsPerDay
    /\ now' = now + SecondsPerDay
    /\ UNCHANGED <<webhooks, deliveries, consents, webhookSeq, deliverySeq, inflight, last,
                   secretSeq, creating, accounts>>

ConsentNext ==
    \/ \E u \in ConsentUsers, p \in ConsentPurposes :
          /\ Len(consents) < MaxGrants
          /\ GrantConsentAnswered(u, p)
    \/ \E u \in ConsentUsers, c \in 1..MaxGrants : RevokeConsentAnswered(u, c)
    \/ \E u \in ConsentUsers, c \in 1..MaxGrants : RenewConsent(u, c)
    \/ \E u \in ConsentUsers, status \in {"any", GRANTED} : ListMyConsents(u, status)
    \/ \E key \in ApiKeys, u \in ConsentUsers, p \in ConsentPurposes \cup {0} :
          SdkCheckConsent(key, u, p)
    \/ DayPasses /\ resp' = NoAnswer

ConsentSpec == Init /\ [][ConsentNext]_vars

\* ---------------------------------------------------- expiry and deliveries
\* The consent API of one user and one purpose, for a fiduciary that has
\* registered two webhooks before: one for consent.expired, one for all
\* events.
ExpiryInit ==
    /\ webhooks = <<NewWebhook(1, 3, ExampleUrl, {CONSENT_EXPIRED}, 1),
                    NewWebhook(1, 3, ExampleUrl, {ALL}, 2)>>
    /\ webhookSeq = 2 /\ secretSeq = 2
    /\ deliveries = <<>> /\ deliverySeq = 0
    /\ consents = <<>> /\ inflight = {} /\ last = "none" /\ now = 0
    /\ creating = <<>> /\ accounts = Fiduciaries
    /\ resp = NoAnswer

ExpiryNext ==
    \/ \E u \in Users, p \in Purposes :
          Len(consents) < MaxConsents /\ GrantConsentAnswered(u, p)
    \/ \E u \in Users, c \in 1..MaxConsents : RevokeConsentAnswered(u, c)
    \/ \E u \in Users, c \in 1..MaxConsents : RenewConsent(u, c)
    \/ \E u \in Users, status \in {"any", GRANTED} : ListMyConsents(u, status)
    \/ \E r \in inflight, o \in TestOutcomes : DeliverEndAnswered(r, o)
    \/ DayPasses /\ resp' = NoAnswer

ExpirySpec == ExpiryInit /\ [][ExpiryNext]_vars

\* ------------------------------------------------- crashes and deliveries
\* The server process stops while the handlers `dead` are blocked in
\* client.post: they never reach the commit that follows the POST, and what
\* was committed before stays in the tables.
Crash(dead) ==
    /\ dead # {}
    /\ dead \subseteq inflight
    /\ inflight' = inflight \ dead
    /\ UNCHANGED <<webhooks, deliveries, consents, webhookSeq, deliverySeq, last, now,
                   secretSeq>>

\* Deliveries with crashes, without deletions of webhooks
CrashNext ==
    \/ \E fid \in Fiduciaries, data \in PlainCreates :
          webhookSeq < MaxWebhooks /\ CreateWebhook(fid, data) /\ UNCHANGED aside
    \/ \E w \in 1..MaxWebhooks, fid \in Fiduciaries, data \in UpdateRequests :
          UpdateWebhook(w, fid, data) /\ UNCHANGED aside
    \/ \E w \in 1..MaxWebhooks, fid \in Fiduciaries :
          TestWebhook(w, fid) /\ UNCHANGED aside
    \/ \E u \in Users, p \in Purposes :
          Len(consents) < MaxConsents /\ GrantConsent(u, p) /\ UNCHANGED aside
    \/ \E u \in Users, c \in 1..MaxConsents : RevokeConsent(u, c) /\ UNCHANGED aside
    \/ \E r \in inflight, o \in Outcomes : DeliverEnd(r, o) /\ UNCHANGED aside
    \/ \E dead \in SUBSET inflight : Crash(dead) /\ UNCHANGED aside

CrashSpec == Init /\ [][CrashNext]_vars

\* ---------------------------------------------------- secrets and deliveries
\* Secrets are regenerated while test requests and consent grants deliver.
\* A consent request is no request of the management API: it leaves no
\* answer there.
RotateNext ==
    \/ \E fid \in Fiduciaries, data \in LimitCreates :
          /\ webhookSeq < MaxWebhooks /\ secretSeq < MaxSecrets
          /\ CreateNewWebhook(fid, data)
    \/ \E w \in 1..MaxWebhooks, fid \in Fiduciaries :
          (WebhookFound(w, fid) => secretSeq < MaxSecrets) /\ RegenerateSecret(w, fid)
    \/ \E w \in 1..MaxWebhooks, fid \in Fiduciaries : TestWebhookEndpoint(w, fid)
    \/ \E u \in Users, p \in Purposes :
          Len(consents) < MaxConsents /\ GrantConsent(u, p) /\ resp' = NoAnswer /\ UNCHANGED <<creating, accounts>>
    \/ \E r \in inflight, o \in TestOutcomes : DeliverEndAnswered(r, o)

RotateSpec == Init /\ [][RotateNext]_vars

\* ---------------------------------------------------- the claims, continued
\* webhook w exists and belongs to fiduciary fid
Owns(fid, w) == w \in DOMAIN webhooks /\ webhooks[w].fiduciary_id = fid
\* the delivery rows of webhook w
RowsOf(w) == {d \in Rows : deliveries[d].webhook_id = w}
\* the operations addressed by webhook id
ByIdOps == {"get", "update", "delete", "regenerate", "test", "deliveries"}

\* C14: a get, update, delete, regenerate-secret, test or list-deliveries
\* request of an owner for a webhook that is another owner's is answered
\* with the same 404 as for an id that does not exist and changes nothing;
\* no such request changes another owner's webhook, secret or delivery
\* rows; and the list of an owner holds exactly that owner's webhooks.
C14_CrossOwnerIsNotFound ==
    [][/\ (resp'.op \in ByIdOps /\ ~Owns(resp'.fid, resp'.w)) =>
             /\ resp' = [op |-> resp'.op, fid |-> resp'.fid, w |-> resp'.w,
                         status |-> 404, detail |-> "Webhook not found"]
             /\ UNCHANGED store
       /\ resp'.op \in ByIdOps =>
             \A w \in DOMAIN webhooks :
                 webhooks[w].fiduciary_id # resp'.fid =>
                     /\ w \in DOMAIN webhooks' /\ webhooks'[w] = webhooks[w]
                     /\ {d \in DOMAIN deliveries' : deliveries'[d].webhook_id = w} = RowsOf(w)
                     /\ \A d \in RowsOf(w) : deliveries'[d] = deliveries[d]
       /\ resp'.op = "list" =>
             /\ resp'.status = 200
             /\ {b.id : b \in resp'.body} = {w \in DOMAIN webhooks : Owns(resp'.fid, w)}
             /\ \A b \in resp'.body : b = WebhookToResponse(b.id, webhooks[b.id])
      ]_vars

\* an owner asked for a new secret for another owner's webhook, which has a
\* delivery row, and was answered 404
C14_Witness ==
    /\ resp.op = "regenerate" /\ resp.status = 404
    /\ resp.w \in DOMAIN webhooks
    /\ webhooks[resp.w].fiduciary_id # resp.fid
    /\ RowsOf(resp.w) # {}

\* the secrets stored in the registry
StoredSecrets == {webhooks[w].secret : w \in DOMAIN webhooks}

\* C15: the answer of a create and the answer of a regenerate-secret carry
\* the secret that this very request generated and stored, a secret no
\* earlier answer can have carried; the answers of get, list, update, test
\* and the delivery history carry no secret.
C15_SecretOnlyOnCreateAndRotate ==
    [][resp'.status = 200 =>
         /\ resp'.op = "create" =>
               /\ resp'.body.secret = secretSeq + 1
               /\ resp'.body.secret \notin StoredSecrets
               /\ resp'.body.id \in DOMAIN webhooks' \ DOMAIN webhooks
               /\ webhooks'[resp'.body.id].secret = resp'.body.secret
         /\ resp'.op = "regenerate" =>
               /\ DOMAIN resp'.body = {"secret"}
               /\ resp'.body.secret = secretSeq + 1
               /\ resp'.body.secret \notin StoredSecrets
               /\ webhooks'[resp'.w].secret = resp'.body.secret
         /\ resp'.op \in {"get", "update", "test_result"} =>
               "secret" \notin DOMAIN resp'.body
         /\ resp'.op = "list" =>
               \A b \in resp'.body : "secret" \notin DOMAIN b
         /\ resp'.op = "deliveries" =>
               \A i \in DOMAIN resp'.body : "secret" \notin DOMAIN resp'.body[i]
         /\ resp'.op \in {"create", "regenerate", "get", "update", "test_result", "list",
                          "deliveries", "delete"}
      ]_vars

\* a webhook whose secret was regenerated is read back with GET
C15_Witness ==
    /\ resp.op = "get" /\ resp.status = 200
    /\ webhooks[resp.w].secret > 1
    /\ secretSeq > Cardinality(DOMAIN webhooks)

\* the receiver's check of a signature against a secret
Verifies(signature, payload, secret) == signature = generate_signature(payload, secret)

\* C16: a regenerate-secret request that succeeds leaves a stored secret
\* different from the one before, and every POST that starts is signed with
\* the secret stored at that moment: its signature verifies under that
\* secret and under no other secret generated so far.
C16_RotatedSecretSigns ==
    [][/\ (resp'.op = "regenerate" /\ resp'.status = 200) =>
             /\ webhooks'[resp'.w].secret # webhooks[resp'.w].secret
             /\ webhooks'[resp'.w].secret \notin 0..secretSeq
       /\ \A r \in inflight' \ inflight :
             LET w == deliveries'[r.cur].webhook_id
             IN  /\ Verifies(r.request.signature, r.request.content, webhooks[w].secret)
                 /\ \A old \in (0..secretSeq) \ {webhooks[w].secret} :
                        ~Verifies(r.request.signature, r.request.content, old)
      ]_vars

\* two POSTs to the same webhook are in flight, one started before its
\* secret was regenerated and one after: the later one carries a signature
\* under the stored secret, the earlier one under the secret before
C16_Witness ==
    \E r1, r2 \in inflight :
        /\ r1.cur < r2.cur
        /\ r1.cur \in DOMAIN deliveries /\ r2.cur \in DOMAIN deliveries
        /\ deliveries[r1.cur].webhook_id = deliveries[r2.cur].webhook_id
        /\ r2.kind = "grant"
        /\ LET w == deliveries[r2.cur].webhook_id
           IN  /\ w \in DOMAIN webhooks
               /\ Verifies(r2.request.signature, r2.request.content, webhooks[w].secret)
               /\ ~Verifies(r1.request.signature, r1.request.content, webhooks[w].secret)
               /\ r1.request.signature.key < webhooks[w].secret

\* the hosts that are to be refused
RefusedHosts ==
    {<<"1", "2", "7", ".", "0", ".", "0", ".", "1">>,
     <<"1", "0", ".", "0", ".", "0", ".", "5">>,
     <<"1", "9", "2", ".", "1", "6", "8", ".", "1", ".", "1">>,
     <<"1", "6", "9", ".", "2", "5", "4", ".", "1", "6", "9", ".", "2", "5", "4">>,
     <<"l", "o", "c", "a", "l", "h", "o", "s", "t">>}

\* C17: the URL validator refuses every URL written with the host 127.0.0.1,
\* 10.0.0.5, 192.168.1.1, 169.254.169.254 or localhost, whatever its scheme,
\* user, port and path, refuses every text that has no host or cannot be
\* parsed, and lets https://example.com/hook through.
C17_PrivateHostsRefused ==
    resp.op = "url_validated" =>
        /\ (resp.host \in RefusedHosts => resp.refused)
        /\ (resp.url \in MalformedUrls => resp.refused)
        /\ (resp.url = ExampleUrl => ~resp.refused)

\* the metadata address, written with a user and a port, was validated
C17_Witness ==
    /\ resp.op = "url_validated"
    /\ resp.host = <<"1", "6", "9", ".", "2", "5", "4", ".", "1", "6", "9", ".", "2", "5", "4">>
    /\ Contains(resp.url, "@")
    /\ Len(resp.url) > Len(resp.host) + 13
    /\ resp.refused

\* C18: the URL validator refuses every URL whose host has no dot, the
\* plain alphanumeric and the hyphenated names included.
C18_SingleLabelRefused ==
    (resp.op = "url_validated" /\ resp.host # <<>> /\ ~Contains(resp.host, "."))
        => resp.refused

\* C19: after any sequence of create and update requests every stored
\* webhook name has a length from 3 to 255: an update with a name outside
\* that range is rejected and leaves the webhook as it was.
C19_StoredNamesInRange ==
    \A w \in DOMAIN webhooks : webhooks[w].name >= 3 /\ webhooks[w].name <= 255

\* C20: after any sequence of create and update requests every stored
\* webhook has at least one event and only WebhookEvent values: a create or
\* update with an empty event list or an unknown event is rejected.
C20_StoredEventsNonEmptyKnown ==
    \A w \in DOMAIN webhooks :
        webhooks[w].events # {} /\ webhooks[w].events \subseteq WebhookEvent

\* C21: the history of a webhook holds, for every requested limit, at most
\* 100 records, all of them records of that webhook, newest first: each
\* record is newer than the one after it and no record of the webhook that
\* is left out is newer than one that is listed.
C21_HistoryCappedOwnNewestFirst ==
    (resp.op = "deliveries" /\ resp.status = 200) =>
        /\ Len(resp.body) <= 100
        /\ \A i \in DOMAIN resp.body :
              /\ resp.body[i].id \in RowsOf(resp.w)
              /\ \A j \in DOMAIN resp.body : i < j => resp.body[i].id > resp.body[j].id
              /\ \A d \in RowsOf(resp.w) :
                    d > resp.body[i].id => \E j \in DOMAIN resp.body : resp.body[j].id = d

\* a webhook with more than 100 delivery rows, while another webhook has
\* rows too, was read and a full page of 100 records came back
C21_Witness ==
    /\ resp.op = "deliveries" /\ resp.status = 200
    /\ Cardinality(RowsOf(resp.w)) > 100
    /\ Rows \ RowsOf(resp.w) # {}
    /\ Len(resp.body) = 100

\* the consents of user u with the fiduciary that holds the API key
ConsentsWith(u, key) ==
    {c \in DOMAIN consents :
        consents[c].user_id = u /\ ApiKey(consents[c].fiduciary_id) = key}

\* C22: a revoked consent stays revoked whatever request follows, a renew
\* and a second revoke of it are answered 400, and check-consent with the
\* key of its fiduciary never lists it; when every consent of the user with
\* that fiduciary is revoked, has_consent is false.
C22_RevokedIsAbsorbing ==
    [][/\ \A c \in DOMAIN consents :
             consents[c].status = REVOKED =>
                 /\ c \in DOMAIN consents'
                 /\ consents'[c].status = REVOKED
                 /\ (/\ resp'.op \in {"renew", "revoke"}
                     /\ resp'.consent = c
                     /\ resp'.user = consents[c].user_id) => resp'.status = 400
       /\ (resp'.op = "check_consent" /\ resp'.status = 200) =>
             /\ \A c \in resp'.consents : consents'[c].status # REVOKED
             /\ (\A c \in ConsentsWith(resp'.user, resp'.key) :
                     consents'[c].status = REVOKED) => ~resp'.has_consent
      ]_vars

\* a user's only consent with a fiduciary was revoked, a day passed, and
\* check-consent with that fiduciary's key answers has_consent false
C22_Witness ==
    /\ resp.op = "check_consent" /\ resp.status = 200
    /\ Cardinality(ConsentsWith(resp.user, resp.key)) = 1
    /\ \A c \in ConsentsWith(resp.user, resp.key) : consents[c].status = REVOKED
    /\ now > 0
    /\ ~resp.has_consent

\* C23: check-consent lists a consent only to the caller that presents the
\* API key of the consent's fiduciary: every consent in an answer belongs
\* to the fiduciary that holds the key of the request, and a key that no
\* fiduciary holds is answered 401 without any consent.
C23_ConsentsOnlyForTheKeyHolder ==
    resp.op = "check_consent" =>
        IF \E fid \in Fiduciaries : ApiKey(fid) = resp.key
        THEN /\ resp.status = 200
             /\ \A c \in resp.consents :
                   /\ c \in DOMAIN consents
                   /\ ApiKey(consents[c].fiduciary_id) = resp.key
        ELSE resp.status = 401 /\ "consents" \notin DOMAIN resp

\* a user has granted consents with both fiduciaries, and check-consent with
\* the key of the second lists the user's consent with the second only
C23_Witness ==
    /\ resp.op = "check_consent" /\ resp.status = 200 /\ resp.key = ApiKey(2)
    /\ \E c \in DOMAIN consents :
          /\ consents[c].user_id = resp.user
          /\ consents[c].fiduciary_id = 1
          /\ consents[c].status = GRANTED
    /\ resp.has_consent
    /\ \A c \in resp.consents : consents[c].fiduciary_id = 2

\* C30: in every state there is at most one consent with status GRANTED for
\* a user and a purpose, after any sequence of grant, revoke, renew and the
\* expiry check of the list.
C30_OneGrantedPerUserAndPurpose ==
    \A u \in ConsentUsers, p \in ConsentPurposes :
        Cardinality({c \in DOMAIN consents :
                        /\ consents[c].user_id = u
                        /\ consents[c].purpose_id = p
                        /\ consents[c].status = GRANTED}) <= 1

\* C29: whenever the status of a consent changes to expired while its
\* fiduciary has a webhook subscribed to consent.expired or to all events,
\* that very step starts a delivery of the event consent.expired to a
\* webhook of that fiduciary.
C29_ExpiryIsDelivered ==
    [][\A c \in DOMAIN consents :
          (/\ c \in DOMAIN consents'
           /\ consents[c].status # EXPIRED
           /\ consents'[c].status = EXPIRED
           /\ Subscribed(consents[c].fiduciary_id, CONSENT_EXPIRED) # {}) =>
              \E d \in DOMAIN deliveries' \ DOMAIN deliveries :
                  /\ deliveries'[d].event_type = CONSENT_EXPIRED
                  /\ deliveries'[d].webhook_id
                         \in Subscribed(consents[c].fiduciary_id, CONSENT_EXPIRED)
      ]_vars

\* the row of a handler is there, pending, with attempt_count 1
PendingFirstAttempt(dl, d) ==
    /\ d \in DOMAIN dl
    /\ dl[d].status = PENDING
    /\ dl[d].attempt_count = 1

\* C24: while a handler is in its POST the row of its delivery is committed,
\* pending, with attempt_count 1; and when handlers stop in the POST without
\* reaching the commit that follows it, each of them leaves that row behind,
\* pending, with attempt_count 1.
C24_PendingRowBeforeThePost ==
    [][/\ \A r \in inflight' : PendingFirstAttempt(deliveries', r.cur)
       /\ \A r \in inflight :
             (r \notin inflight' /\ deliveries' = deliveries) =>
                 PendingFirstAttempt(deliveries', r.cur)
      ]_vars

\* a handler stopped in its POST, and its row is left pending
C24_Witness ==
    /\ inflight = {}
    /\ \E d \in DOMAIN deliveries :
          /\ PendingFirstAttempt(deliveries, d)
          /\ deliveries[d].event_type = CONSENT_GRANTED
    /\ last = "none"

\* the changes of status that the delivery engine may make
StatusEdges ==
    {<<PENDING, SUCCESS>>, <<PENDING, FAILED>>, <<FAILED, RETRYING>>,
     <<RETRYING, SUCCESS>>, <<RETRYING, FAILED>>}

\* C25: in every step, the status of a delivery row that stays in the table
\* is unchanged or changes along pending -> success, pending -> failed,
\* failed -> retrying, retrying -> success or retrying -> failed, so a row
\* that is success stays success; and when the POST of a handler has come
\* back and its result is committed, the row is success or failed.
C25_StatusFollowsTheEdges ==
    [][/\ \A d \in DOMAIN deliveries \cap DOMAIN deliveries' :
             \/ deliveries'[d].status = deliveries[d].status
             \/ <<deliveries[d].status, deliveries'[d].status>> \in StatusEdges
       /\ \A r \in inflight :
             (r \notin inflight' /\ r.cur \in DOMAIN deliveries') =>
                 deliveries'[r.cur].status \in {SUCCESS, FAILED}
      ]_vars

\* a trigger that went to two subscriptions has returned: one delivery
\* ended in success, the other failed on an exception that is neither a
\* timeout nor a request error
C25_Witness ==
    /\ inflight = {}
    /\ last = Returned
    /\ \E d, e \in DOMAIN deliveries :
          /\ deliveries[d].status = SUCCESS
          /\ deliveries[e].status = FAILED
          /\ deliveries[e].error_message = "Unexpected error"
          /\ deliveries[d].event_type = CONSENT_GRANTED
          /\ deliveries[e].event_type = CONSENT_GRANTED

\* what the receiver reads under a key of the JSON text of an envelope
JsonValue(text, key) ==
    text[(CHOOSE i \in 1..Len(text) : i % 4 = 2 /\ text[i] = key) + 2]

\* C26: every POST that starts carries as its body the very text stored as
\* the payload of its delivery row, its signature header is the HMAC of that
\* body under the secret the webhook has at that moment, and its event
\* header is the event field of the envelope in the body and the event_type
\* of the row.
C26_OneSerializationSignedAndSent ==
    [][\A r \in inflight' \ inflight :
          /\ r.cur \in DOMAIN deliveries'
          /\ LET row == deliveries'[r.cur]
             IN  /\ row.payload = r.request.content
                 /\ r.request.signature
                        = generate_signature(row.payload, webhooks'[row.webhook_id].secret)
                 /\ r.request.event = JsonValue(r.request.content, "event")
                 /\ r.request.event = row.event_type
      ]_vars

\* the POST of a consent.granted delivery is open, to a webhook whose secret
\* was regenerated before: the body is the stored payload and names the event
C26_Witness ==
    \E r \in inflight :
        /\ r.cur \in DOMAIN deliveries
        /\ deliveries[r.cur].event_type = CONSENT_GRANTED
        /\ deliveries[r.cur].payload = r.request.content
        /\ JsonValue(r.request.content, "event") = CONSENT_GRANTED
        /\ deliveries[r.cur].webhook_id \in DOMAIN webhooks
        /\ webhookSeq = 1
        /\ webhooks[deliveries[r.cur].webhook_id].secret > 1
        /\ r.request.signature.key = webhooks[deliveries[r.cur].webhook_id].secret

\* C27: in every step of create and update requests, every stored URL is
\* one the URL validator accepts; a create or an update that carries a URL
\* the validator refuses is answered 422 and leaves the webhooks as they
\* are; an update that supplies no URL leaves the stored URL as it is.
C27_StoredUrlsPassTheValidator ==
    [][/\ \A w \in DOMAIN webhooks' : ~IsPrivateOrInternalUrl(webhooks'[w].url)
       /\ \A fid \in LimitOwners, data \in UrlCreates :
             (IsPrivateOrInternalUrl(data.url) /\ CreateNewWebhook(fid, data)) =>
                 (resp'.status = 422 /\ webhooks' = webhooks)
       /\ \A w \in 1..MaxWebhooks, fid \in LimitOwners, data \in UrlUpdates :
             UpdateExistingWebhook(w, fid, data) =>
                 /\ ("url" \in data.given /\ IsPrivateOrInternalUrl(data.url)) =>
                        (resp'.status = 422 /\ webhooks' = webhooks)
                 /\ ("url" \notin data.given /\ w \in DOMAIN webhooks) =>
                        webhooks'[w].url = webhooks[w].url
      ]_vars

\* a webhook whose URL an update has replaced, after an update with a URL
\* was answered 422, next to a webhook that still has the URL of its create
C27_Witness ==
    /\ resp.op = "update" /\ resp.status = 422
    /\ \E w, v \in DOMAIN webhooks :
          /\ w = resp.w
          /\ webhooks[w].url = OtherUrl
          /\ webhooks[v].url = ExampleUrl
          /\ ~webhooks[w].is_active

\* a delivery row that is success, or failed with no retry scheduled
Terminal(row) ==
    \/ row.status = SUCCESS
    \/ row.status = FAILED /\ row.next_retry_at = None

\* C28: in every step, whatever the operation, a delivery row in a terminal
\* state either stays in the table exactly as it is or leaves the table
\* together with its webhook.
C28_TerminalRowsAreKept ==
    [][\A d \in DOMAIN deliveries :
          Terminal(deliveries[d]) =>
              IF d \in DOMAIN deliveries'
              THEN deliveries'[d] = deliveries[d]
              ELSE /\ deliveries[d].webhook_id \in DOMAIN webhooks
                   /\ deliveries[d].webhook_id \notin DOMAIN webhooks'
      ]_vars

\* a row that ended as success and a row that failed on an unexpected
\* exception, of a webhook whose secret was regenerated and whose history
\* has just been read with both rows in the answer
C28_Witness ==
    /\ resp.op = "deliveries" /\ resp.status = 200
    /\ Len(resp.body) = 2
    /\ resp.w \in DOMAIN webhooks
    /\ webhooks[resp.w].secret > 1
    /\ webhookSeq = 1
    /\ \E d, e \in DOMAIN deliveries :
          /\ deliveries[d].status = SUCCESS
          /\ deliveries[e].status = FAILED /\ deliveries[e].next_retry_at = None
          /\ deliveries[d].webhook_id = resp.w
          /\ deliveries[e].webhook_id = resp.w

====
